---- MODULE Spec2Model ----
(***************************************************************************)
(* Model of the internal-audit application: the entity store declared in   *)
(* audit/models.py, the forms of audit/forms.py and the request handlers   *)
(* of audit/views.py.                                                      *)
(*                                                                         *)
(* Several specifications share the variables; each one exercises one part *)
(* of the program and leaves the other variables alone:                    *)
(*  SpecChecklist   sequential writes to the checklist tables              *)
(*  SpecRace        two concurrent get_or_create calls on a checklist table*)
(*  SpecAudit       create-audit submissions and project deletions         *)
(*  SpecCreateRace  a create-audit request interleaved with a deletion     *)
(*  SpecClient      update-client requests                                 *)
(*  SpecAuth        login, logout and one protected page                   *)
(*  SpecPage        the report dashboard over stores of several sizes      *)
(*  SpecShare       share-audit requests                                   *)
(*  SpecCascade     deletes and creates through the model API              *)
(*  SpecLoader      the legal-appointment loop of load_sample_audit, run   *)
(*                  by two invocations at the same time                    *)
(*  SpecLoad        whole runs of load_sample_audit, with deletes and      *)
(*                  rating inserts between them                            *)
(*  SpecRecord      the views that take a primary key                      *)
(*  Spec            the views of urls.py, from two browser sessions        *)
(***************************************************************************)
EXTENDS Integers, Sequences, FiniteSets, TLC

VARIABLES
    users,      \* auth_user table: username -> [password, is_active]
    sessions,   \* session token -> username logged in, or NoUser
    clients,    \* Client table: id -> record
    projects,   \* Project table: id -> record
    audits,     \* Audit table: id -> record
    nextAuditId,\* next primary key of the Audit table
    rows,       \* checklist tables: set of records tagged with their category
    nextRowId,  \* next primary key of each table but Client, Project, Audit
    related,    \* the other tables: rows tagged with their table
    outbox,     \* messages handed to send_mail
    resp,       \* the response of the last request
    req,        \* the last request (what was asked, and of which state)
    proc        \* the concurrent workers: position and locals of each

vars == <<users, sessions, clients, projects, audits, nextAuditId, rows,
          nextRowId, related, outbox, resp, req, proc>>

----------------------------------------------------------------------------
(* Values shared by all parts *)

NoUser == "AnonymousUser"
None == "None"

\* Number of rows the sequential specification inserts into the checklist
\* tables, all tables together.
MaxRows == 2

\* The Audit rows the checklist specifications start from (the store after
\* two audits of one project were recorded).
SeedAuditIds == {1, 2}

----------------------------------------------------------------------------
(* The store the specifications start from: tests.py, AuditAppTests.setUp *)

\* Decimal values are counted in thousandths: 80.00 is 80000.

\* make_password(raw): the stored credential is a hash of the password
MakePassword(raw) == <<"pbkdf2_sha256", raw>>

\* User.objects.create_user(username=.., password=..); "bob" is an account
\* that was deactivated (is_active=False).
SeedUsers ==
    [u \in {"testuser", "bob"} |->
        IF u = "testuser"
        THEN [password |-> MakePassword("password"), is_active |-> TRUE]
        ELSE [password |-> MakePassword("hunter2"), is_active |-> FALSE]]

Sessions == {"s1", "s2"}

\* ClientModel.objects.create(name='ACME') and the contact details set on it
SeedClient ==
    [name |-> "ACME", contact_name |-> "Client Contact",
     contact_email |-> "client@example.com", contact_phone |-> None,
     address |-> None]

\* A second client of the store
OtherClient ==
    [name |-> "BETA", contact_name |-> None, contact_email |-> None,
     contact_phone |-> "555", address |-> None]

\* Project.objects.create(title='Test Project', ..., client=self.client_org, ...)
SeedProject ==
    [title |-> "Test Project", permit_number |-> "P-1", location |-> "Site",
     client |-> 1, consulting_engineer |-> 1, principal_contractor |-> 1]

\* Audit.objects.create(project=self.project, audit_date='2026-01-01', ...)
SeedAudit ==
    [project |-> 1, audit_date |-> 20260101, audit_type |-> "OHS",
     audit_number |-> "001", performed_by |-> "Tester",
     report_number |-> "R-001", overall_score_percentage |-> 80000,
     standard_required |-> 75000, improvement_notices |-> 0,
     contravention_notices |-> 0, prohibition_notices |-> 0]

----------------------------------------------------------------------------
(* Checklist categories: models.py, LegalAppointment .. TrafficAccommodation *)

\* Two of the structurally identical checklist tables.
Categories == {"LegalAppointment", "TrainingCommunication"}

\* Item-type codes handed to the tables (members of the choices lists).
ItemCodes(cat) ==
    IF cat = "LegalAppointment" THEN {"CEO_16_1", "CEO_16_2"}
    ELSE {"INDUCTION_MANUAL", "SAFETY_TALKS"}

\* APPOINTMENT_TYPES / TRAINING_TYPES: the codes of the choices list of the
\* table's item-type column
ItemChoices(cat) ==
    IF cat = "LegalAppointment"
    THEN {"CEO_16_1", "CEO_16_2", "CONSTR_MGR_8_1", "HCA", "CONSTR_SUP_8_7",
          "ELEC_INSP", "CHS_OFFICER_8_5", "FIRE_INSP_29H", "ENV_OFFICER",
          "EMERGENCY_COORD", "HS_REP_17_1", "EXCAVATION_SUP_13_1",
          "RISK_ASSESSOR_9_1", "PPE_INSP", "FIRST_AIDER", "HAND_TOOLS_INSP",
          "STACKING_STORAGE", "HS_COMMITTEE", "HYGIENE_INSP",
          "INCIDENT_INVEST", "PORTABLE_ELEC_INSP", "HOUSEKEEPING",
          "VEHICLE_INSP", "TRAFFIC_SAFETY", "HS_CHAIRPERSON",
          "VEHICLE_OPERATOR"}
    ELSE {"INDUCTION_MANUAL", "SAFETY_TALKS", "DAILY_RISK_ASSESS",
          "TRAFFIC_MEETINGS"}

\* COMPLIANCE_STATUS / choices=[(0, 0), (1, 1), (2, 2)]
ScoreChoices == {0, 1, 2}

\* required_score = models.IntegerField(..., default=2)
DefaultRequiredScore == 2

\* The rows of table cat that hold the pair (audit, item_type).
RowsOf(table, cat, a, code) ==
    {r \in table : r.category = cat /\ r.audit = a /\ r.item_type = code}

\* Mutant: the table is declared without unique_together.
NoUniqueTogether(table, cat, a, code, selfId) == FALSE

\* class Meta: unique_together = ['audit', <item type>]: the unique index
\* refuses a row whose pair is already held by another row of the table.
UniqueTogether(table, cat, a, code, selfId) ==
    \E r \in RowsOf(table, cat, a, code) : r.id # selfId

\* audit = models.ForeignKey(Audit, on_delete=models.CASCADE): the row must
\* reference an existing Audit.
AuditFkViolated(a) == a \notin DOMAIN audits

NewRow(cat, id, a, code, required, actual) ==
    [category |-> cat, id |-> id, audit |-> a, item_type |-> code,
     required_score |-> required, actual_score |-> actual]

FkError == "IntegrityError: FOREIGN KEY constraint failed"
UniqueError == "IntegrityError: UNIQUE constraint failed"

\* The INSERT statement of Model.objects.create(): all-or-nothing.
InsertOutcome(table, cat, a, code) ==
    IF AuditFkViolated(a) THEN FkError
    ELSE IF UniqueTogether(table, cat, a, code, 0) THEN UniqueError
    ELSE "ok"

----------------------------------------------------------------------------
(* The other tables of models.py: ConsultingFirm, PrincipalContractor,     *)
(* RiskRating, ActionItem, SitePersonnel, VisualObservation.  A row is     *)
(* [table, id, audit, risk_rating, name, level, description]; a reference  *)
(* the table does not have, and a NULL risk_rating, is 0; a column the     *)
(* table does not have is None.                                            *)

\* The tables whose rows reference an Audit with on_delete=models.CASCADE
AuditChildTables == {"ActionItem", "SitePersonnel", "VisualObservation"}

RelatedRow(table, id, a, rating) ==
    [table |-> table, id |-> id, audit |-> a, risk_rating |-> rating,
     name |-> None, level |-> None, description |-> None]

\* A row of ConsultingFirm or PrincipalContractor
NamedRow(table, id, name) ==
    [RelatedRow(table, id, 0, 0) EXCEPT !.name = name]

\* A row of RiskRating
RatingRow(id, level) ==
    [RelatedRow("RiskRating", id, 0, 0) EXCEPT !.level = level]

\* ConsultingFirm.objects.create(name='ConsultCo');
\* PrincipalContractor.objects.create(name='PrimeBuild')
SeedRelated ==
    {NamedRow("ConsultingFirm", 1, "ConsultCo"),
     NamedRow("PrincipalContractor", 1, "PrimeBuild")}

\* The next primary key of each table after the rows above
SeedRowIds ==
    LET
        RelatedTables ==
            {"ConsultingFirm", "PrincipalContractor", "RiskRating"}
            \cup AuditChildTables
    IN
    [t \in Categories \cup RelatedTables |->
        IF t \in {"ConsultingFirm", "PrincipalContractor"} THEN 2 ELSE 1]

\* Mutant: Audit.project is declared with on_delete=models.DO_NOTHING.
AuditsOfNoCascade(P) == {}

\* project = models.ForeignKey(Project, on_delete=models.CASCADE): the
\* Audits a delete of the projects P cascades to
AuditsOf(P) == {a \in DOMAIN audits : audits[a].project \in P}

\* audit = models.ForeignKey(Audit, on_delete=models.CASCADE) /
\* models.OneToOneField(Audit, on_delete=models.CASCADE): the rows of the
\* other tables that a delete of the audits gone leaves
RelatedLeft(gone) ==
    {r \in related : r.table \notin AuditChildTables \/ r.audit \notin gone}

----------------------------------------------------------------------------
(* Sequential writes through the model API *)

IdleProc == [pc |-> "idle", category |-> None, audit |-> 0, item_type |-> None,
             actual_score |-> 0, seen |-> FALSE, outcome |-> None,
             created |-> FALSE]

Procs == {"w1", "w2"}

NoResp == [kind |-> "none"]
NoReq == [op |-> "none"]

\* The part of the initial state every specification shares.
InitStore ==
    /\ users = SeedUsers
    /\ clients = [c \in {1, 2} |-> IF c = 1 THEN SeedClient ELSE OtherClient]
    /\ outbox = <<>>
    /\ resp = NoResp
    /\ req = NoReq
    /\ rows = {}
    /\ nextRowId = SeedRowIds
    /\ related = SeedRelated

\* <Category>.objects.create(audit=a, item_type=code, actual_score=s)
ChecklistCreate(cat, a, code, s) ==
    LET
        \* Rows inserted so far (primary keys are never reused).
        Inserted == LET Sum[S \in SUBSET Categories] ==
                            IF S = {} THEN 0
                            ELSE LET c == CHOOSE x \in S : TRUE
                                 IN (nextRowId[c] - 1) + Sum[S \ {c}]
                    IN Sum[Categories]
    IN
    LET out == InsertOutcome(rows, cat, a, code) IN
    /\ Inserted < MaxRows
    /\ req' = [op |-> "create"]
    /\ resp' = [kind |-> "db", result |-> out,
                id |-> IF out = "ok" THEN nextRowId[cat] ELSE 0]
    /\ IF out = "ok"
       THEN /\ rows' = rows \cup {NewRow(cat, nextRowId[cat], a, code,
                                          DefaultRequiredScore, s)}
            /\ nextRowId' = [nextRowId EXCEPT ![cat] = @ + 1]
       ELSE UNCHANGED <<rows, nextRowId>>
    /\ UNCHANGED <<related, users, sessions, clients, projects, audits, nextAuditId,
                   outbox, proc>>

\* row.item_type = code; row.actual_score = s; row.save()  (an UPDATE)
ChecklistSave(r, code, s) ==
    LET bad == UniqueTogether(rows, r.category, r.audit, code, r.id) IN
    /\ req' = [op |-> "save"]
    /\ resp' = [kind |-> "db", result |-> IF bad THEN UniqueError ELSE "ok",
                id |-> r.id]
    /\ rows' = IF bad THEN rows
               ELSE (rows \ {r}) \cup
                    {[r EXCEPT !.item_type = code, !.actual_score = s]}
    /\ UNCHANGED <<related, users, sessions, clients, projects, audits, nextAuditId,
                   nextRowId, outbox, proc>>

\* audit.delete(): on_delete=models.CASCADE removes the audit's checklist rows
AuditDelete(a) ==
    /\ a \in DOMAIN audits
    /\ req' = [op |-> "delete_audit"]
    /\ resp' = [kind |-> "db", result |-> "ok", id |-> a]
    /\ audits' = [x \in DOMAIN audits \ {a} |-> audits[x]]
    /\ rows' = {r \in rows : r.audit # a}
    /\ related' = RelatedLeft({a})
    /\ UNCHANGED <<users, sessions, clients, projects, nextAuditId, nextRowId,
                   outbox, proc>>

InitChecklist ==
    /\ InitStore
    /\ sessions = [s \in Sessions |-> NoUser]
    /\ projects = [p \in {1} |-> SeedProject]
    /\ audits = [a \in SeedAuditIds |-> SeedAudit]
    /\ nextAuditId = 3
    /\ proc = [p \in Procs |-> IdleProc]

\* What a caller hands to actual_score (the column is a plain integer).
ActualScoreInputs == {0, 2}

NextChecklist ==
    \/ \E cat \in Categories, a \in SeedAuditIds, s \in ActualScoreInputs :
          \E code \in ItemCodes(cat) : ChecklistCreate(cat, a, code, s)
    \/ \E r \in rows, s \in ActualScoreInputs :
          \E code \in ItemCodes(r.category) : ChecklistSave(r, code, s)
    \/ \E a \in SeedAuditIds : AuditDelete(a)

SpecChecklist == InitChecklist /\ [][NextChecklist]_vars

----------------------------------------------------------------------------
(* Two workers running <Category>.objects.get_or_create(audit=..,           *)
(* item_type=.., defaults={..}) at the same time, as two runs of            *)
(* load_sample_audit do.  get_or_create is a SELECT followed, when nothing  *)
(* was found, by an INSERT; an IntegrityError of the INSERT is caught and   *)
(* the existing row is returned with created=False.                         *)

GocBegin(p, cat, a, code, s) ==
    /\ proc[p].pc = "idle"
    /\ proc' = [proc EXCEPT ![p] = [IdleProc EXCEPT !.pc = "get",
                    !.category = cat, !.audit = a, !.item_type = code,
                    !.actual_score = s]]
    /\ UNCHANGED <<related, users, sessions, clients, projects, audits, nextAuditId,
                   rows, nextRowId, outbox, resp, req>>

\* the SELECT
GocGet(p) ==
    LET me == proc[p]
        found == RowsOf(rows, me.category, me.audit, me.item_type) # {}
    IN
    /\ me.pc = "get"
    /\ proc' = [proc EXCEPT ![p] =
                    IF found
                    THEN [me EXCEPT !.pc = "done", !.seen = TRUE,
                                    !.outcome = "found"]
                    ELSE [me EXCEPT !.pc = "insert"]]
    /\ UNCHANGED <<related, users, sessions, clients, projects, audits, nextAuditId,
                   rows, nextRowId, outbox, resp, req>>

\* the INSERT
GocInsert(p) ==
    LET me == proc[p]
        out == InsertOutcome(rows, me.category, me.audit, me.item_type)
    IN
    /\ me.pc = "insert"
    /\ proc' = [proc EXCEPT ![p] = [me EXCEPT !.pc = "done", !.outcome = out,
                                               !.created = (out = "ok")]]
    /\ IF out = "ok"
       THEN /\ rows' = rows \cup
                    {NewRow(me.category, nextRowId[me.category], me.audit,
                            me.item_type, DefaultRequiredScore, me.actual_score)}
            /\ nextRowId' = [nextRowId EXCEPT ![me.category] = @ + 1]
       ELSE UNCHANGED <<rows, nextRowId>>
    /\ UNCHANGED <<related, users, sessions, clients, projects, audits, nextAuditId,
                   outbox, resp, req>>

NextRace ==
    \/ \E p \in Procs, cat \in Categories, a \in SeedAuditIds,
          s \in ActualScoreInputs :
          \E code \in ItemCodes(cat) : GocBegin(p, cat, a, code, s)
    \/ \E p \in Procs : GocGet(p)
    \/ \E p \in Procs : GocInsert(p)

SpecRace == InitChecklist /\ [][NextRace]_vars

----------------------------------------------------------------------------
(* manage.py load_sample_audit: the loop over legal_appointments, run by   *)
(* one or two invocations of the command.  handle() runs in no             *)
(* transaction: each get_or_create is a statement of its own.  Its other   *)
(* statements write the other tables.                                      *)

\* legal_appointments: appointment_type and actual_score, in list order
LoaderAppointments ==
    << <<"CEO_16_1", 2>>, <<"CEO_16_2", 2>>, <<"CONSTR_MGR_8_1", 2>>,
       <<"CHS_OFFICER_8_5", 2>>, <<"ELECT_INSP", 0>> >>

\* The defaults of Audit.objects.get_or_create(report_number=..)
LoaderAudit(pr) ==
    [project |-> pr, audit_date |-> 20250717, audit_type |-> "OHS",
     audit_number |-> "001",
     performed_by |-> "LETHU SAFETY CONSULTANTS (PTY) LTD",
     report_number |-> "CHS-LSC-2025/06", overall_score_percentage |-> 84000,
     standard_required |-> 75000, improvement_notices |-> 1,
     contravention_notices |-> 0, prohibition_notices |-> 0]

\* The store after handle() got or created its project and its audit
InitLoader ==
    /\ InitStore
    /\ sessions = [s \in Sessions |-> NoUser]
    /\ projects = [p \in {1} |-> SeedProject]
    /\ audits = [a \in {1} |-> LoaderAudit(1)]
    /\ nextAuditId = 2
    /\ proc = [p \in Procs |-> IdleProc]

\* for appt_data in legal_appointments: LegalAppointment.objects
\* .get_or_create(audit=audit, appointment_type=.., defaults={..}): the call
\* for the entry that follows the one the invocation has finished; after the
\* last entry the command may be invoked again
LoaderGetOrCreate(p) ==
    LET me == proc[p]
        at == IF me.pc = "idle" THEN 0
              ELSE CHOOSE i \in DOMAIN LoaderAppointments :
                        LoaderAppointments[i][1] = me.item_type
        i == IF at = Len(LoaderAppointments) THEN 1 ELSE at + 1
    IN
    /\ me.pc \in {"idle", "done"}
    /\ proc' = [proc EXCEPT ![p] = [IdleProc EXCEPT !.pc = "get",
                    !.category = "LegalAppointment", !.audit = 1,
                    !.item_type = LoaderAppointments[i][1],
                    !.actual_score = LoaderAppointments[i][2]]]
    /\ UNCHANGED <<related, users, sessions, clients, projects, audits,
                   nextAuditId, rows, nextRowId, outbox, resp, req>>

NextLoader ==
    \/ \E p \in Procs : LoaderGetOrCreate(p)
    \/ \E p \in Procs : GocGet(p)
    \/ \E p \in Procs : GocInsert(p)

SpecLoader == InitLoader /\ [][NextLoader]_vars

----------------------------------------------------------------------------
(* Submitted values.  A JSON or form value is a numeral, a date-shaped     *)
(* string, another string, or nothing (key absent, null or "").            *)
(* A numeral carries its value in thousandths (n) and the number of digits *)
(* written after the point (p): "90.00" is Num(90000, 2), 1 is Num(1000,0).*)
(* A date-shaped string "YYYY-MM-DD" carries its digits: 20260102.         *)

Num(n, p) == [t |-> "num", n |-> n, p |-> p, s |-> ""]
IntNum(k) == Num(k * 1000, 0)
Str(x) == [t |-> "str", n |-> 0, p |-> 0, s |-> x]
DateStr(d) == [t |-> "datestr", n |-> d, p |-> 0, s |-> ""]
Absent == [t |-> "none", n |-> 0, p |-> 0, s |-> ""]

\* payload.get(k): None when the key is absent
Get(payload, k) == IF k \in DOMAIN payload THEN payload[k] ELSE Absent

\* a field's empty_values: None and ''
IsEmpty(v) == v.t = "none" \/ (v.t = "str" /\ v.s = "")

----------------------------------------------------------------------------
(* forms.py: AuditModelForm, built from the fields of models.Audit *)

AuditFields ==
    {"project", "audit_date", "audit_type", "audit_number", "performed_by",
     "report_number", "overall_score_percentage", "standard_required",
     "improvement_notices", "contravention_notices", "prohibition_notices"}

\* Mutant: AUDIT_TYPES has a fourth code.
AUDIT_TYPES_EXTENDED == {"OHS", "ENV", "QUAL", "XYZ"}

\* Audit.AUDIT_TYPES
AUDIT_TYPES == {"OHS", "ENV", "QUAL"}

\* len(digit_tuple) of the Decimal the numeral parses to (numerals of up to
\* seven digits are submitted)
DigitTupleLen(v) ==
    LET
        Abs(n) == IF n < 0 THEN 0 - n ELSE n
    IN
    LET
        Pow10(k) == IF k = 0 THEN 1 ELSE IF k = 1 THEN 10 ELSE IF k = 2 THEN 100 ELSE 1000
    IN
    LET c == Abs(v.n) \div Pow10(3 - v.p) IN
    IF c < 10 THEN 1 ELSE IF c < 100 THEN 2 ELSE IF c < 1000 THEN 3
    ELSE IF c < 10000 THEN 4 ELSE IF c < 100000 THEN 5
    ELSE IF c < 1000000 THEN 6 ELSE 7

\* DecimalValidator.__call__: digits, decimals and whole digits of the value
Digits(v) == IF v.p > DigitTupleLen(v) THEN v.p ELSE DigitTupleLen(v)
WholeDigits(v) == Digits(v) - v.p

\* project = models.ForeignKey(Project, ...): a ModelChoiceField over
\* Project.objects.all()
ProjectErrors(v) ==
    IF IsEmpty(v) THEN {"required"}
    ELSE IF v.t = "num" /\ v.p = 0 /\ (v.n \div 1000) \in DOMAIN projects
         THEN {} ELSE {"invalid_choice"}

\* Mutant: the score fields are declared without MaxValueValidator(100).
DecimalErrorsNoMax(v) ==
    IF IsEmpty(v) THEN {"required"}
    ELSE IF v.t # "num" THEN {"invalid"}
    ELSE {e \in {"min_value"} : v.n < 0}
         \cup {e \in {"max_decimal_places"} : v.p > 2}

\* models.DecimalField(max_digits=5, decimal_places=2,
\*     validators=[MinValueValidator(0), MaxValueValidator(100)])
DecimalErrors(v) ==
    IF IsEmpty(v) THEN {"required"}
    ELSE IF v.t # "num" THEN {"invalid"}
    ELSE {e \in {"min_value"} : v.n < 0}
         \cup {e \in {"max_value"} : v.n > 100000}
         \cup {e \in {"max_digits"} : Digits(v) > 5}
         \cup {e \in {"max_decimal_places"} : v.p > 2}
         \cup {e \in {"max_whole_digits"} : WholeDigits(v) > 3}

\* Mutant: the notice counters are declared with blank=True.
NoticeErrorsOptional(v) ==
    IF IsEmpty(v) THEN {}
    ELSE IF v.t = "num" /\ v.n % 1000 = 0 THEN {} ELSE {"invalid"}

\* improvement_notices = models.IntegerField(default=0), and the other two
NoticeErrors(v) ==
    IF IsEmpty(v) THEN {"required"}
    ELSE IF v.t = "num" /\ v.n % 1000 = 0 THEN {} ELSE {"invalid"}

\* The errors of one field of AuditModelForm(payload).
AuditFieldErrors(payload, f) ==
    LET
        \* DateField.to_python: the string must name a day of the calendar
        IsCalendarDate(d) ==
            LET
                IsLeap(y) == (y % 4 = 0 /\ y % 100 # 0) \/ y % 400 = 0
            IN
            LET
                DaysInMonth(y, m) ==
                    IF m = 2 THEN (IF IsLeap(y) THEN 29 ELSE 28)
                    ELSE IF m \in {4, 6, 9, 11} THEN 30 ELSE 31
            IN
            LET y == d \div 10000
                m == (d \div 100) % 100
                dd == d % 100
            IN y >= 1 /\ m \in 1..12 /\ dd >= 1 /\ dd <= DaysInMonth(y, m)
    IN
    LET
        \* audit_date = models.DateField()
        DateErrors(v) ==
            IF IsEmpty(v) THEN {"required"}
            ELSE IF v.t = "datestr" /\ IsCalendarDate(v.n) THEN {} ELSE {"invalid"}
    IN
    LET
        \* audit_type = models.CharField(max_length=10, choices=AUDIT_TYPES,
        \* default='OHS'): blank is not allowed, so the form field is required
        TypeErrors(v) ==
            IF IsEmpty(v) THEN {"required"}
            ELSE IF v.t = "str" /\ v.s \in AUDIT_TYPES THEN {} ELSE {"invalid_choice"}
    IN
    LET
        \* audit_number, performed_by, report_number: models.CharField(max_length=..)
        \* (the strings submitted here are shorter than max_length)
        CharErrors(v) == IF IsEmpty(v) THEN {"required"} ELSE {}
    IN
    LET v == Get(payload, f) IN
    IF f = "project" THEN ProjectErrors(v)
    ELSE IF f = "audit_date" THEN DateErrors(v)
    ELSE IF f = "audit_type" THEN TypeErrors(v)
    ELSE IF f \in {"audit_number", "performed_by", "report_number"}
         THEN CharErrors(v)
    ELSE IF f \in {"overall_score_percentage", "standard_required"}
         THEN DecimalErrors(v)
    ELSE NoticeErrors(v)

\* form.errors: the fields in error, each with its errors
AuditFormErrors(payload) ==
    LET bad == {f \in AuditFields : AuditFieldErrors(payload, f) # {}}
    IN [f \in bad |-> AuditFieldErrors(payload, f)]

\* form.is_valid()
AuditFormIsValid(payload) ==
    \A f \in AuditFields : AuditFieldErrors(payload, f) = {}

\* form.cleaned_data: the values form.save() writes to the new Audit
AuditCleaned(payload) ==
    [project |-> Get(payload, "project").n \div 1000,
     audit_date |-> Get(payload, "audit_date").n,
     audit_type |-> Get(payload, "audit_type").s,
     audit_number |-> Get(payload, "audit_number").s,
     performed_by |-> Get(payload, "performed_by").s,
     report_number |-> Get(payload, "report_number").s,
     overall_score_percentage |-> Get(payload, "overall_score_percentage").n,
     standard_required |-> Get(payload, "standard_required").n,
     improvement_notices |-> Get(payload, "improvement_notices").n \div 1000,
     contravention_notices |-> Get(payload, "contravention_notices").n \div 1000,
     prohibition_notices |-> Get(payload, "prohibition_notices").n \div 1000]

----------------------------------------------------------------------------
(* views.py: responses and the login gate *)

NoErrors == [f \in {} |-> {}]

\* JsonResponse({'success': True, 'id': id})
JsonOk(id) ==
    [kind |-> "json", status |-> 200, success |-> TRUE, errors |-> NoErrors,
     id |-> id, location |-> "", data |-> <<>>]

\* JsonResponse({'success': False, 'errors': errors}, status=status)
JsonFail(status, errors) ==
    [kind |-> "json", status |-> status, success |-> FALSE, errors |-> errors,
     id |-> 0, location |-> "", data |-> <<>>]

\* {'__all__': message}
AllError(message) == [f \in {"__all__"} |-> {message}]

\* HttpResponseRedirect(location)
Redirect(location) ==
    [kind |-> "redirect", status |-> 302, success |-> FALSE,
     errors |-> NoErrors, id |-> 0, location |-> location, data |-> <<>>]

\* an exception no handler catches: Django answers 500
ServerError(message) ==
    [kind |-> "error", status |-> 500, success |-> FALSE,
     errors |-> AllError(message), id |-> 0, location |-> "", data |-> <<>>]

\* request.user.is_authenticated
IsAuthenticated(s) == sessions[s] # NoUser

\* Mutant: the view is declared without LoginRequiredMixin.
NoLoginRequired(s) == TRUE

\* LoginRequiredMixin.dispatch: the handler runs only for an authenticated
\* user; anybody else is redirected to the login page.
LoginRequired(s) == IsAuthenticated(s)

\* login_url = '/' of the view (settings.LOGIN_URL where the view sets none)
LoginRedirect == Redirect("/?next=")

----------------------------------------------------------------------------
(* views.py: AuditCreateView.post *)

JsonType == "application/json"
FormType == "application/x-www-form-urlencoded"
ContentTypes == {JsonType, FormType}

\* A request body: text that json.loads accepts, with the object it
\* yields, or text it rejects.
Body(data) == [json |-> TRUE, data |-> data]
Malformed == [json |-> FALSE, data |-> [f \in {} |-> Absent]]

AuditCreateResponse(ctype, body) ==
    IF ctype # JsonType THEN JsonFail(400, AllError("Expected JSON payload."))
    ELSE IF ~body.json THEN JsonFail(400, AllError("Invalid JSON payload."))
    ELSE IF AuditFormIsValid(body.data) THEN JsonOk(nextAuditId)
    ELSE JsonFail(400, AuditFormErrors(body.data))

\* Mutant: the handler saves the form without asking is_valid() first.
AuditCreateSavesUnchecked(ctype, body) == ctype = JsonType /\ body.json

\* post() reaches form.save()
AuditCreateSaves(ctype, body) ==
    ctype = JsonType /\ body.json /\ AuditFormIsValid(body.data)

AuditCreatePost(s, ctype, body) ==
    /\ req' = [op |-> "create_audit", session |-> s,
               authenticated |-> IsAuthenticated(s), ctype |-> ctype,
               body |-> body]
    /\ IF ~LoginRequired(s)
       THEN /\ resp' = LoginRedirect
            /\ UNCHANGED <<audits, nextAuditId>>
       ELSE /\ resp' = AuditCreateResponse(ctype, body)
            /\ IF AuditCreateSaves(ctype, body)
               THEN /\ audits' = [a \in DOMAIN audits \cup {nextAuditId} |->
                                    IF a = nextAuditId
                                    THEN AuditCleaned(body.data)
                                    ELSE audits[a]]
                    /\ nextAuditId' = nextAuditId + 1
               ELSE UNCHANGED <<audits, nextAuditId>>
    /\ UNCHANGED <<related, users, sessions, clients, projects, rows, nextRowId,
                   outbox, proc>>

\* project.delete(): Audit.project is on_delete=models.CASCADE, and so is
\* the audit of every checklist row
ProjectDelete(p) ==
    LET gone == AuditsOf({p}) IN
    /\ p \in DOMAIN projects
    /\ req' = [op |-> "delete_project"]
    /\ resp' = [kind |-> "db", result |-> "ok", id |-> p]
    /\ projects' = [x \in DOMAIN projects \ {p} |-> projects[x]]
    /\ audits' = [a \in DOMAIN audits \ gone |-> audits[a]]
    /\ rows' = {r \in rows : r.audit \notin gone}
    /\ related' = RelatedLeft(gone)
    /\ UNCHANGED <<users, sessions, clients, nextAuditId, nextRowId, outbox,
                   proc>>

----------------------------------------------------------------------------
(* Create-audit requests, one after the other *)

\* Highest primary key the specifications give to an Audit.
MaxAuditId == 3

\* tests.py, test_reports_create_metadata_and_post: the payload posted
BasePayload ==
    [f \in AuditFields |->
        CASE f = "project" -> IntNum(1)
          [] f = "audit_date" -> DateStr(20260102)
          [] f = "audit_type" -> Str("OHS")
          [] f = "audit_number" -> Str("002")
          [] f = "performed_by" -> Str("Creator")
          [] f = "report_number" -> Str("R-002")
          [] f = "overall_score_percentage" -> Num(90000, 2)
          [] f = "standard_required" -> Num(75000, 2)
          [] OTHER -> IntNum(0)]

\* The requests posted to reports/create/
AuditCreateRequests ==
    LET
        \* Other values submitted, field by field
        FieldInputs(f) ==
            LET
                \* Scores submitted: -0.001, -1, 0, 0.00, 50.005, 100, 100.00, 100.000,
                \* 100.001, 100.01, 101, 1000, "abc", null
                OverallInputs ==
                    {Num(0 - 1, 3), IntNum(0 - 1), IntNum(0), Num(0, 2), Num(50005, 3),
                     IntNum(100), Num(100000, 2), Num(100000, 3), Num(100001, 3),
                     Num(100010, 2), IntNum(101), IntNum(1000), Str("abc"), Absent}
            IN
            LET
                \* -1, 0, 100, 100.01
                StandardInputs == {IntNum(0 - 1), IntNum(0), IntNum(100), Num(100010, 2)}
            IN
            CASE f = "project" -> {IntNum(9), Str("abc")}
              [] f = "audit_date" -> {DateStr(20260230), Str("tomorrow")}
              [] f = "audit_type" -> {Str("ENV"), Str("QUAL"), Str("XYZ"), Str("ohs"),
                                         IntNum(1)}
              [] f = "audit_number" -> {Str("")}
              [] f = "performed_by" -> {}
              [] f = "report_number" -> {}
              [] f = "overall_score_percentage" -> OverallInputs
              [] f = "standard_required" -> StandardInputs
              [] f = "improvement_notices" -> {IntNum(0 - 1), Num(1500, 1), Str("x")}
              [] OTHER -> {IntNum(0 - 1)}
    IN
    LET
        \* The payloads posted: the one of the test, with one field changed or left
        \* out, or with both scores changed.
        AuditPayloads ==
            {BasePayload}
            \cup UNION {{[BasePayload EXCEPT ![f] = v] : v \in FieldInputs(f)} :
                         f \in AuditFields}
            \cup {[g \in AuditFields \ {f} |-> BasePayload[g]] : f \in AuditFields}
            \cup {[BasePayload EXCEPT !["overall_score_percentage"] = v,
                                      !["standard_required"] = IntNum(0 - 1)] :
                    v \in {IntNum(0), IntNum(101)}}
    IN
    {<<JsonType, Body(d)>> : d \in AuditPayloads}
    \cup {<<JsonType, Malformed>>, <<FormType, Body(BasePayload)>>}

InitAudit ==
    /\ InitStore
    /\ sessions = [s \in Sessions |-> IF s = "s1" THEN "testuser" ELSE NoUser]
    /\ projects = [p \in {1} |-> SeedProject]
    /\ audits = [a \in {1} |-> SeedAudit]
    /\ nextAuditId = 2
    /\ proc = [p \in Procs |-> IdleProc]

\* What an anonymous visitor posts
AnonymousCreateRequests == {<<JsonType, Body(BasePayload)>>, <<JsonType, Malformed>>}

NextAudit ==
    \/ \E s \in Sessions, r \in AuditCreateRequests :
          /\ nextAuditId <= MaxAuditId
          /\ IsAuthenticated(s) \/ r \in AnonymousCreateRequests
          /\ AuditCreatePost(s, r[1], r[2])
    \/ \E p \in DOMAIN projects : ProjectDelete(p)

SpecAudit == InitAudit /\ [][NextAudit]_vars

----------------------------------------------------------------------------
(* Create-audit requests and project deletions running at the same time.   *)
(* A request is served in two steps, form.is_valid() and form.save(); the  *)
(* store may change between them.  project.delete() is two steps as well:  *)
(* the collection of the rows to cascade to, and the DELETE statements in  *)
(* one transaction.                                                        *)

IdleWorker == [pc |-> "idle", data |-> BasePayload, project |-> 0,
               collected |-> {}]

\* Mutant: Audit.project is declared with db_constraint=False.
NoProjectFk(pr) == FALSE

\* project = models.ForeignKey(Project, on_delete=models.CASCADE): the
\* database refuses an Audit row that references no Project row.
ProjectFkViolated(pr) == pr \notin DOMAIN projects

\* post(), up to and including form.is_valid()
CreateValidate(p, s, data) ==
    /\ proc[p].pc = "idle"
    /\ req' = [op |-> "validate", session |-> s,
               authenticated |-> IsAuthenticated(s), data |-> data]
    /\ IF ~LoginRequired(s)
       THEN resp' = LoginRedirect /\ UNCHANGED proc
       ELSE IF AuditFormIsValid(data)
       THEN /\ resp' = NoResp
            /\ proc' = [proc EXCEPT ![p] = [IdleWorker EXCEPT !.pc = "save",
                                                             !.data = data]]
       ELSE /\ resp' = JsonFail(400, AuditFormErrors(data))
            /\ UNCHANGED proc
    /\ UNCHANGED <<related, users, sessions, clients, projects, audits, nextAuditId,
                   rows, nextRowId, outbox>>

\* audit = form.save() and the response
CreateSave(p) ==
    LET new == AuditCleaned(proc[p].data) IN
    /\ proc[p].pc = "save"
    /\ req' = [op |-> "save", session |-> "", authenticated |-> TRUE,
               data |-> proc[p].data]
    /\ proc' = [proc EXCEPT ![p] = IdleWorker]
    /\ IF ProjectFkViolated(new.project)
       THEN /\ resp' = ServerError(FkError)
            /\ UNCHANGED <<audits, nextAuditId>>
       ELSE /\ resp' = JsonOk(nextAuditId)
            /\ audits' = [a \in DOMAIN audits \cup {nextAuditId} |->
                            IF a = nextAuditId THEN new ELSE audits[a]]
            /\ nextAuditId' = nextAuditId + 1
    /\ UNCHANGED <<related, users, sessions, clients, projects, rows, nextRowId,
                   outbox>>

\* project.delete(): Collector.collect() finds the Audits to cascade to
DeleteCollect(p, pr) ==
    /\ proc[p].pc = "idle"
    /\ pr \in DOMAIN projects
    /\ proc' = [proc EXCEPT ![p] = [IdleWorker EXCEPT !.pc = "delete",
                    !.project = pr,
                    !.collected = AuditsOf({pr})]]
    /\ req' = [op |-> "collect", session |-> "", authenticated |-> TRUE,
               data |-> BasePayload]
    /\ resp' = NoResp
    /\ UNCHANGED <<related, users, sessions, clients, projects, audits, nextAuditId,
                   rows, nextRowId, outbox>>

\* project.delete(): Collector.delete() deletes the collected Audits and
\* the Project in one transaction, which the database rolls back when an
\* Audit it did not collect still references the Project.
DeleteExecute(p) ==
    LET pr == proc[p].project
        gone == proc[p].collected
        left == {a \in DOMAIN audits \ gone : audits[a].project = pr}
    IN
    /\ proc[p].pc = "delete"
    /\ proc' = [proc EXCEPT ![p] = IdleWorker]
    /\ req' = [op |-> "delete", session |-> "", authenticated |-> TRUE,
               data |-> BasePayload]
    /\ IF left # {}
       THEN /\ resp' = ServerError(FkError)
            /\ UNCHANGED <<projects, audits, rows, related>>
       ELSE /\ resp' = NoResp
            /\ projects' = [x \in DOMAIN projects \ {pr} |-> projects[x]]
            /\ audits' = [a \in DOMAIN audits \ gone |-> audits[a]]
            /\ rows' = {r \in rows : r.audit \notin gone}
            /\ related' = RelatedLeft(gone)
    /\ UNCHANGED <<users, sessions, clients, nextAuditId, nextRowId, outbox>>

InitCreateRace ==
    /\ InitStore
    /\ sessions = [s \in Sessions |-> IF s = "s1" THEN "testuser" ELSE NoUser]
    /\ projects = [p \in {1, 2} |-> SeedProject]
    /\ audits = [a \in {1} |-> SeedAudit]
    /\ nextAuditId = 2
    /\ proc = [p \in Procs |-> IdleWorker]

NextCreateRace ==
    LET
        \* The payloads of the concurrent requests: the project is 1, 2, 9 (no
        \* such project) or left out
        RacePayloads ==
            {[BasePayload EXCEPT !["project"] = v] :
                v \in {IntNum(1), IntNum(2), IntNum(9), Absent}}
    IN
    \/ \E p \in Procs, s \in Sessions, d \in RacePayloads :
          nextAuditId <= MaxAuditId /\ CreateValidate(p, s, d)
    \/ \E p \in Procs : CreateSave(p)
    \/ \E p \in Procs, pr \in DOMAIN projects : DeleteCollect(p, pr)
    \/ \E p \in Procs : DeleteExecute(p)

SpecCreateRace == InitCreateRace /\ [][NextCreateRace]_vars

----------------------------------------------------------------------------
(* Strings read character by character: str.strip(), and                   *)
(* django.core.validators.validate_email, which EmailField and             *)
(* AuditShareAjaxView.post call                                            *)

\* The characters of the strings submitted as addresses and as usernames.
Chars(x) ==
    CASE
         x = "client@example.com" ->
           <<"c", "l", "i", "e", "n", "t", "@", "e", "x", "a", "m", "p", "l", "e", ".", "c", "o", "m">>
      [] x = "new@example.com" ->
           <<"n", "e", "w", "@", "e", "x", "a", "m", "p", "l", "e", ".", "c", "o", "m">>
      [] x = "not-an-email" ->
           <<"n", "o", "t", "-", "a", "n", "-", "e", "m", "a", "i", "l">>
      [] x = "a@b" ->
           <<"a", "@", "b">>
      [] x = "user@localhost" ->
           <<"u", "s", "e", "r", "@", "l", "o", "c", "a", "l", "h", "o", "s", "t">>
      [] x = ".new@example.com" ->
           <<".", "n", "e", "w", "@", "e", "x", "a", "m", "p", "l", "e", ".", "c", "o", "m">>
      [] x = "new@example.c" ->
           <<"n", "e", "w", "@", "e", "x", "a", "m", "p", "l", "e", ".", "c">>
      [] x = "testuser" ->
           <<"t", "e", "s", "t", "u", "s", "e", "r">>
      [] x = " testuser " ->
           <<" ", "t", "e", "s", "t", "u", "s", "e", "r", " ">>
      [] x = "bob" ->
           <<"b", "o", "b">>
      [] x = "mallory" ->
           <<"m", "a", "l", "l", "o", "r", "y">>
      [] x = "  " ->
           <<" ", " ">>
      [] x = " new@example.com " ->
           <<" ", "n", "e", "w", "@", "e", "x", "a", "m", "p", "l", "e", ".", "c", "o", "m", " ">>
      [] OTHER -> <<>>

\* str.strip(): the string without its leading and trailing blanks
Strip(x) ==
    LET
        \* The strings the table above spells, and the empty string
        Spelled ==
            {"client@example.com", "new@example.com", "not-an-email", "a@b",
             "user@localhost", ".new@example.com", "new@example.c", "testuser",
             " testuser ", "bob", "mallory", "  ", " new@example.com ", ""}
    IN
    LET c == Chars(x)
        inner == {i \in 1..Len(c) : c[i] # " "}
        lo == IF inner = {} THEN 1 ELSE CHOOSE i \in inner : \A j \in inner : i <= j
        hi == IF inner = {} THEN 0 ELSE CHOOSE i \in inner : \A j \in inner : j <= i
    IN CHOOSE y \in Spelled : Chars(y) = SubSeq(c, lo, hi)

Letters ==
    {"a", "b", "c", "d", "e", "f", "g", "h", "i", "j", "k", "l", "m", "n",
     "o", "p", "q", "r", "s", "t", "u", "v", "w", "x", "y", "z"}

UserPartOk(u) ==
    LET
        \* user_regex, the dot-atom form: atoms of these characters, single dots
        \* between them
        AtomChars == Letters \cup {"-", "_", "+"}
    IN
    /\ Len(u) > 0
    /\ \A i \in 1..Len(u) : u[i] \in AtomChars \cup {"."}
    /\ u[1] # "." /\ u[Len(u)] # "."
    /\ \A i \in 1..(Len(u) - 1) : ~(u[i] = "." /\ u[i + 1] = ".")

\* domain_regex: labels of letters, digits and inner hyphens, each followed
\* by a dot, then a last label of two characters or more
DomainOk(d) ==
    LET dots == {i \in 1..Len(d) : d[i] = "."}
        last == IF dots = {} THEN 0
                ELSE CHOOSE i \in dots : \A j \in dots : j <= i
    IN
    /\ dots # {}
    /\ \A i \in 1..Len(d) : d[i] \in Letters \cup {"-", "."}
    /\ d[1] \notin {".", "-"}
    /\ \A i \in dots : /\ i > 1 /\ d[i - 1] \notin {".", "-"}
                        /\ i < Len(d) /\ d[i + 1] \notin {".", "-"}
    /\ Len(d) - last >= 2
    /\ d[Len(d)] # "-"

\* EmailValidator.__call__
ValidateEmail(x) ==
    LET
        \* EmailValidator.domain_allowlist
        DomainAllowlist == {<<"l", "o", "c", "a", "l", "h", "o", "s", "t">>}
    IN
    LET c == Chars(x)
        ats == {i \in 1..Len(c) : c[i] = "@"}
        k == IF ats = {} THEN 0 ELSE CHOOSE i \in ats : \A j \in ats : j <= i
        user == SubSeq(c, 1, k - 1)
        domain == SubSeq(c, k + 1, Len(c))
    IN
    /\ ats # {}
    /\ UserPartOk(user)
    /\ domain \in DomainAllowlist \/ (Len(domain) > 0 /\ DomainOk(domain))

----------------------------------------------------------------------------
(* forms.py: ClientForm; views.py: ClientUpdateAjaxView.post *)

\* Mutant: the form is declared with the name as one of its fields.
ClientFormWithName ==
    {"name", "contact_name", "contact_email", "contact_phone", "address"}

\* ClientForm.Meta.fields
ClientFormFields == {"contact_name", "contact_email", "contact_phone", "address"}

\* the list in "only pass allowed fields"
AllowedKeys == {"contact_name", "contact_email", "contact_phone", "address"}

\* allowed = {k: payload.get(k) for k in [...]}
Allowed(payload) == [k \in AllowedKeys |-> Get(payload, k)]

\* The errors of one field of ClientForm(data): every field may be blank
\* (blank=True); contact_email is an EmailField; name, when the form has
\* it, is required
ClientFieldErrors(data, f) ==
    LET v == Get(data, f) IN
    IF IsEmpty(v) THEN (IF f = "name" THEN {"required"} ELSE {})
    ELSE IF f = "contact_email" /\ ~(v.t = "str" /\ ValidateEmail(v.s))
         THEN {"invalid"}
    ELSE {}

ClientFormErrors(data) ==
    LET bad == {f \in ClientFormFields : ClientFieldErrors(data, f) # {}}
    IN [f \in bad |-> ClientFieldErrors(data, f)]

ClientFormIsValid(data) ==
    \A f \in ClientFormFields : ClientFieldErrors(data, f) = {}

\* Mutant: form.save() keeps the stored value of a field submitted empty.
ClientSavedPartial(client, data) ==
    [f \in DOMAIN client |->
        IF f \in ClientFormFields /\ ~IsEmpty(Get(data, f))
        THEN Get(data, f).s
        ELSE client[f]]

\* form.save(): every field of the form is written to the instance; an
\* empty value is stored as NULL, and as '' in address (a TextField): None
\* stands for both
ClientSaved(client, data) ==
    [f \in DOMAIN client |->
        IF f \in ClientFormFields
        THEN (IF IsEmpty(Get(data, f)) THEN None ELSE Get(data, f).s)
        ELSE client[f]]

\* Mutant: a failed lookup is answered as a form error is.
NotFoundAsBadRequest ==
    [kind |-> "json", status |-> 400, success |-> FALSE,
     errors |-> NoErrors, id |-> 0, location |-> "", data |-> <<>>]

\* get_object_or_404(Client, pk=pk) raising Http404
NotFound ==
    [kind |-> "notfound", status |-> 404, success |-> FALSE,
     errors |-> NoErrors, id |-> 0, location |-> "", data |-> <<>>]

\* The data the form is built from: the allowed keys of the JSON object,
\* or request.POST as it is
ClientFormData(ctype, body) ==
    IF ctype = JsonType THEN Allowed(body.data) ELSE body.data

ClientUpdateResponse(ctype, body) ==
    IF ctype = JsonType /\ ~body.json
    THEN JsonFail(400, AllError("Invalid JSON payload."))
    ELSE IF ClientFormIsValid(ClientFormData(ctype, body)) THEN JsonOk(0)
    ELSE JsonFail(400, ClientFormErrors(ClientFormData(ctype, body)))

ClientUpdatePost(s, pk, ctype, body) ==
    /\ req' = [op |-> "update_client", session |-> s,
               authenticated |-> IsAuthenticated(s), pk |-> pk,
               ctype |-> ctype, body |-> body]
    /\ IF ~LoginRequired(s)
       THEN resp' = LoginRedirect /\ UNCHANGED clients
       ELSE IF pk \notin DOMAIN clients
       THEN resp' = NotFound /\ UNCHANGED clients
       ELSE /\ resp' = ClientUpdateResponse(ctype, body)
            /\ clients' =
                 IF resp'.success
                 THEN [clients EXCEPT ![pk] =
                          ClientSaved(@, ClientFormData(ctype, body))]
                 ELSE clients
    /\ UNCHANGED <<related, users, sessions, projects, audits, nextAuditId, rows,
                   nextRowId, outbox, proc>>

----------------------------------------------------------------------------
(* Update-client requests *)

\* tests.py, test_client_detail_and_update: the payload posted
ClientTestPayload ==
    [k \in AllowedKeys |->
        CASE k = "contact_name" -> Str("New Contact")
          [] k = "contact_email" -> Str("new@example.com")
          [] k = "contact_phone" -> Str("012345")
          [] OTHER -> Str("New Address")]

ClientUpdateRequests ==
    LET
        \* The payloads posted to clients/<pk>/update/: the one of the test; with a
        \* name or an id added; with another address; with a key left out; empty.
        ClientPayloads ==
            LET
                \* d with the key k set to v
                With(d, k, v) == [x \in DOMAIN d \cup {k} |-> IF x = k THEN v ELSE d[x]]
            IN
            LET
                \* d without the key k
                Without(d, k) == [x \in DOMAIN d \ {k} |-> d[x]]
            IN
            LET t == ClientTestPayload
                bad == With(t, "contact_email", Str("not-an-email"))
            IN {t, With(t, "name", Str("EVIL")), With(t, "id", IntNum(99)),
                bad, With(bad, "name", Str("EVIL")),
                With(t, "contact_email", Str("user@localhost")),
                Without(t, "contact_phone"),
                With(Without(t, "address"), "name", Str("")),
                [k \in {"name"} |-> Str("EVIL")],
                [k \in {} |-> Absent]}
    IN
    {<<c, Body(d)>> : c \in ContentTypes, d \in ClientPayloads}
    \cup {<<JsonType, Malformed>>}

InitClient ==
    /\ InitStore
    /\ sessions = [s \in Sessions |-> IF s = "s1" THEN "testuser" ELSE NoUser]
    /\ projects = [p \in {1} |-> SeedProject]
    /\ audits = [a \in {1} |-> SeedAudit]
    /\ nextAuditId = 2
    /\ proc = [p \in Procs |-> IdleProc]

NextClient ==
    LET
        \* Primary keys requested: two clients of the store, and one that is not
        ClientKeys == {1, 2, 3}
    IN
    \E s \in Sessions, pk \in ClientKeys, r \in ClientUpdateRequests :
        ClientUpdatePost(s, pk, r[1], r[2])

SpecClient == InitClient /\ [][NextClient]_vars

----------------------------------------------------------------------------
(* views.py: LoginAjaxView.post, LogoutAjaxView.post *)

\* user.check_password(raw)
CheckPassword(raw, encoded) == MakePassword(raw) = encoded

\* authenticate(request, username=.., password=..) with the backend of the
\* settings, ModelBackend, on the user table db: the user of that name,
\* when the password matches and user_can_authenticate() (is_active)
\* holds; else None
Authenticate(db, username, password) ==
    IF username \in DOMAIN db
          /\ CheckPassword(password, db[username].password)
          /\ db[username].is_active
    THEN username ELSE None

\* messages.error(request, ..) followed by redirect('audit:index')
FlashRedirect(messages) ==
    [kind |-> "redirect", status |-> 302, success |-> FALSE,
     errors |-> [f \in {"messages"} |-> messages], id |-> 0,
     location |-> "/", data |-> <<>>]

\* JsonResponse({'success': True, 'redirect': location})
JsonRedirect(location) ==
    [kind |-> "json", status |-> 200, success |-> TRUE, errors |-> NoErrors,
     id |-> 0, location |-> location, data |-> <<>>]

\* username = (payload.get('username') or '').strip()
SubmittedUsername(data) ==
    LET v == Get(data, "username") IN IF v.t = "str" THEN Strip(v.s) ELSE ""

\* password = payload.get('password') or ''
SubmittedPassword(data) ==
    LET v == Get(data, "password") IN IF v.t = "str" THEN v.s ELSE ""

\* errors = {}; errors['username'] = ..; errors['password'] = ..
MissingCredentials(username, password) ==
    [f \in {g \in {"username"} : username = ""}
            \cup {g \in {"password"} : password = ""} |->
        IF f = "username" THEN {"Please enter your username."}
        ELSE {"Please enter your password."}]

\* Mutant: the handler tells an unknown username from a wrong password.
InvalidLoginMessageRevealing(db, username) ==
    IF username \in DOMAIN db THEN "Invalid password."
    ELSE "Unknown username."

\* The message for a username and password that authenticate() refused on
\* the user table db: 'Invalid username or password.'
InvalidLoginMessage(db, username) == "Invalid username or password."

\* The answer to a failure, by the kind of request
LoginFailure(isJson, errors) ==
    IF isJson THEN JsonFail(400, errors)
    ELSE FlashRedirect(UNION {errors[f] : f \in DOMAIN errors})

\* Mutant: login() is called for the account of the submitted username
\* whatever authenticate() returned.
LoginUserUnverified(db, ctype, body) ==
    LET username == SubmittedUsername(body.data)
        password == SubmittedPassword(body.data)
    IN
    IF ctype = JsonType /\ ~body.json THEN None
    ELSE IF username = "" \/ password = "" THEN None
    ELSE IF username \in DOMAIN db THEN username
    ELSE None

\* The user post() logs in on the user table db, or None when it answers
\* before login()
LoginUser(db, ctype, body) ==
    LET username == SubmittedUsername(body.data)
        password == SubmittedPassword(body.data)
        user == Authenticate(db, username, password)
    IN
    IF ctype = JsonType /\ ~body.json THEN None
    ELSE IF username = "" \/ password = "" THEN None
    ELSE IF user = None THEN None
    ELSE IF ~db[user].is_active THEN None
    ELSE user

\* The answer of post() on the user table db
LoginResponse(db, ctype, xhr, body) ==
    LET isJson == ctype = JsonType
        username == SubmittedUsername(body.data)
        password == SubmittedPassword(body.data)
        user == Authenticate(db, username, password)
    IN
    IF isJson /\ ~body.json
    THEN JsonFail(400, AllError("Invalid request payload."))
    ELSE IF username = "" \/ password = ""
    THEN LoginFailure(isJson, MissingCredentials(username, password))
    ELSE IF user = None
    THEN LoginFailure(isJson, AllError(InvalidLoginMessage(db, username)))
    ELSE IF ~db[user].is_active
    THEN LoginFailure(isJson, AllError("This account is inactive."))
    ELSE IF isJson \/ xhr THEN JsonRedirect("/dashboard/")
    ELSE Redirect("/dashboard/")

LoginPost(s, ctype, xhr, body) ==
    LET user == LoginUser(users, ctype, body) IN
    /\ req' = [op |-> "login", session |-> s,
               authenticated |-> IsAuthenticated(s), ctype |-> ctype,
               xhr |-> xhr, body |-> body]
    /\ resp' = LoginResponse(users, ctype, xhr, body)
    /\ sessions' = IF user = None THEN sessions
                   ELSE [sessions EXCEPT ![s] = user]
    /\ UNCHANGED <<related, users, clients, projects, audits, nextAuditId, rows,
                   nextRowId, outbox, proc>>

\* Mutant: the handler answers without calling logout(request).
LogoutKeepsSession(s) == sessions

\* logout(request): the session is flushed
LogoutSession(s) == [sessions EXCEPT ![s] = NoUser]

LogoutResponse(s, ctype, xhr) ==
    LET ajax == ctype = JsonType \/ xhr IN
    IF ~IsAuthenticated(s)
    THEN (IF ajax THEN JsonFail(400, AllError("Not authenticated."))
          ELSE FlashRedirect({"Not authenticated."}))
    ELSE IF ajax THEN JsonRedirect("/") ELSE Redirect("/")

LogoutPost(s, ctype, xhr) ==
    /\ req' = [op |-> "logout", session |-> s,
               authenticated |-> IsAuthenticated(s), ctype |-> ctype,
               xhr |-> xhr, body |-> Malformed]
    /\ resp' = LogoutResponse(s, ctype, xhr)
    /\ sessions' = IF IsAuthenticated(s) THEN LogoutSession(s) ELSE sessions
    /\ UNCHANGED <<related, users, clients, projects, audits, nextAuditId, rows,
                   nextRowId, outbox, proc>>

----------------------------------------------------------------------------
(* views.py: the pages and JSON views that read the store *)

\* a rendered page or a JSON object that shows the entities listed in data
Page(data) ==
    [kind |-> "page", status |-> 200, success |-> TRUE, errors |-> NoErrors,
     id |-> 0, location |-> "", data |-> data]

\* The sequences that hold each element of S once
Orderings(S) ==
    {q \in [1..Cardinality(S) -> S] : \A x \in S : \E i \in DOMAIN q : q[i] = x}

\* Dashboard: a template that shows no entity
DashboardGet(s) ==
    /\ req' = [op |-> "dashboard", session |-> s,
               authenticated |-> IsAuthenticated(s)]
    /\ resp' = IF ~LoginRequired(s) THEN LoginRedirect ELSE Page(<<>>)
    /\ UNCHANGED <<related, users, sessions, clients, projects, audits, nextAuditId,
                   rows, nextRowId, outbox, proc>>

\* Collation of the client names of the store
NameRank(name) == IF name = "ACME" THEN 1 ELSE 2

ClientDashboardGet(s) ==
    LET
        \* Client.objects.all().order_by('name')
        ClientsByName ==
            {q \in Orderings(DOMAIN clients) :
                \A i, j \in DOMAIN q :
                    i < j => NameRank(clients[q[i]].name) <= NameRank(clients[q[j]].name)}
    IN
    /\ req' = [op |-> "client_list", session |-> s,
               authenticated |-> IsAuthenticated(s)]
    /\ IF ~LoginRequired(s) THEN resp' = LoginRedirect
       ELSE \E q \in ClientsByName :
               resp' = Page([i \in DOMAIN q |-> <<"Client", q[i]>>])
    /\ UNCHANGED <<related, users, sessions, clients, projects, audits, nextAuditId,
                   rows, nextRowId, outbox, proc>>

\* Paginator(audit_qs, 10)
PageSize == 10

\* Audit.objects...order_by('-audit_date'): the rows in an order the
\* database may return them in
RECURSIVE DateDescOrders(_)
\* The sequences that hold each audit of S once, a later date first; audits
\* of one date in any order (ORDER BY audit_date DESC names no second key)
DateDescOrders(S) ==
    IF S = {} THEN {<<>>}
    ELSE LET latest == {a \in S : \A b \in S :
                            audits[a].audit_date >= audits[b].audit_date}
         IN UNION {{<<a>> \o q : q \in DateDescOrders(S \ {a})} : a \in latest}

AuditsByDateDesc == DateDescOrders(DOMAIN audits)

\* paginator.num_pages
NumPages(count) ==
    IF count = 0 THEN 1 ELSE (count + PageSize - 1) \div PageSize

\* Mutant: EmptyPage is answered with page 1.
ResolvePageFirstOnEmpty(page, count) ==
    IF ~(page.t = "num" /\ page.p = 0) THEN 1
    ELSE IF page.n \div 1000 < 1 \/ page.n \div 1000 > NumPages(count) THEN 1
    ELSE page.n \div 1000

\* The page get_context_data() shows: paginator.page(page); page 1 on
\* PageNotAnInteger; the last page on EmptyPage
ResolvePage(page, count) ==
    IF ~(page.t = "num" /\ page.p = 0) THEN 1
    ELSE IF page.n \div 1000 < 1 \/ page.n \div 1000 > NumPages(count)
         THEN NumPages(count)
    ELSE page.n \div 1000

ReportDashboardGet(s, page) ==
    LET
        \* Page.object_list: the slice of the ordered rows
        PageObjects(q, number) ==
            LET bottom == (number - 1) * PageSize
                top == IF bottom + PageSize > Len(q) THEN Len(q) ELSE bottom + PageSize
            IN SubSeq(q, bottom + 1, top)
    IN
    /\ req' = [op |-> "report_list", session |-> s,
               authenticated |-> IsAuthenticated(s), page |-> page]
    /\ IF ~LoginRequired(s) THEN resp' = LoginRedirect
       ELSE \E q \in AuditsByDateDesc :
               LET shown == PageObjects(q, ResolvePage(page, Len(q)))
               IN resp' = Page([i \in DOMAIN shown |-> <<"Audit", shown[i]>>])
    /\ UNCHANGED <<related, users, sessions, clients, projects, audits, nextAuditId,
                   rows, nextRowId, outbox, proc>>

ClientDetailGet(s, pk) ==
    /\ req' = [op |-> "client_detail", session |-> s,
               authenticated |-> IsAuthenticated(s), pk |-> pk]
    /\ resp' = IF ~LoginRequired(s) THEN LoginRedirect
               ELSE IF pk \notin DOMAIN clients THEN NotFound
               ELSE Page(<< <<"Client", pk>> >>)
    /\ UNCHANGED <<related, users, sessions, clients, projects, audits, nextAuditId,
                   rows, nextRowId, outbox, proc>>

AuditDetailGet(s, pk) ==
    /\ req' = [op |-> "audit_detail", session |-> s,
               authenticated |-> IsAuthenticated(s), pk |-> pk]
    /\ resp' = IF ~LoginRequired(s) THEN LoginRedirect
               ELSE IF pk \notin DOMAIN audits THEN NotFound
               ELSE Page(<< <<"Audit", pk>> >>)
    /\ UNCHANGED <<related, users, sessions, clients, projects, audits, nextAuditId,
                   rows, nextRowId, outbox, proc>>

\* AuditCreateView.get: the fields of the forms, the project field with one
\* choice for each Project
AuditCreateGet(s) ==
    /\ req' = [op |-> "create_metadata", session |-> s,
               authenticated |-> IsAuthenticated(s)]
    /\ IF ~LoginRequired(s) THEN resp' = LoginRedirect
       ELSE \E q \in Orderings(DOMAIN projects) :
               resp' = Page([i \in DOMAIN q |-> <<"Project", q[i]>>])
    /\ UNCHANGED <<related, users, sessions, clients, projects, audits, nextAuditId,
                   rows, nextRowId, outbox, proc>>

----------------------------------------------------------------------------
(* views.py: AuditShareAjaxView.post *)

\* to_email = (payload.get('to_email') or '').strip()
SubmittedRecipient(data) ==
    LET v == Get(data, "to_email") IN IF v.t = "str" THEN Strip(v.s) ELSE ""

\* Mutant: the handler does not call validate_email.
ShareRefusalUnvalidated(ctype, body) ==
    IF ctype # JsonType THEN JsonFail(400, AllError("Expected JSON payload."))
    ELSE IF ~body.json THEN JsonFail(400, AllError("Invalid JSON payload."))
    ELSE IF SubmittedRecipient(body.data) = ""
    THEN JsonFail(400, [f \in {"to_email"} |-> {"Recipient email required."}])
    ELSE NoResp

\* The answer before send_mail is reached, or NoResp when it is reached
ShareRefusal(ctype, body) ==
    IF ctype # JsonType THEN JsonFail(400, AllError("Expected JSON payload."))
    ELSE IF ~body.json THEN JsonFail(400, AllError("Invalid JSON payload."))
    ELSE IF SubmittedRecipient(body.data) = ""
    THEN JsonFail(400, [f \in {"to_email"} |-> {"Recipient email required."}])
    ELSE IF ~ValidateEmail(SubmittedRecipient(body.data))
    THEN JsonFail(400, [f \in {"to_email"} |-> {"Enter a valid email address."}])
    ELSE NoResp

\* Mutant: send_mail is called with fail_silently=True.
DeliveryFailureSilent(text) == JsonOk(0)

\* except Exception as e: 'Failed to send email: ' + str(e), status 500
DeliveryFailure(text) ==
    JsonFail(500, [f \in {"__all__"} |-> {<<"Failed to send email: ", text>>}])

\* raised: the text of the exception the mail backend raises, or None when
\* it accepts the message
AuditSharePost(s, pk, ctype, body, raised) ==
    LET
        \* message = payload.get('message', ''), as the f-string prints it
        SubmittedMessage(data) ==
            IF "message" \notin DOMAIN data THEN ""
            ELSE IF data["message"].t = "str" THEN data["message"].s ELSE "None"
    IN
    LET
        \* send_mail(subject, body, from_email, [to_email]): the subject names the
        \* report number, the body is the message and the link to reports/<id>/
        Mail(audit, id, to, message) ==
            [to |-> to, report_number |-> audit.report_number, message |-> message,
             link |-> id]
    IN
    /\ req' = [op |-> "share", session |-> s,
               authenticated |-> IsAuthenticated(s), pk |-> pk,
               ctype |-> ctype, body |-> body, raised |-> raised]
    /\ IF ~LoginRequired(s)
       THEN resp' = LoginRedirect /\ UNCHANGED outbox
       ELSE IF pk \notin DOMAIN audits
       THEN resp' = NotFound /\ UNCHANGED outbox
       ELSE IF ShareRefusal(ctype, body) # NoResp
       THEN resp' = ShareRefusal(ctype, body) /\ UNCHANGED outbox
       ELSE IF raised = None
       THEN /\ resp' = JsonOk(0)
            /\ outbox' = Append(outbox,
                    Mail(audits[pk], pk, SubmittedRecipient(body.data),
                         SubmittedMessage(body.data)))
       ELSE /\ resp' = DeliveryFailure(raised)
            /\ UNCHANGED outbox
    /\ UNCHANGED <<related, users, sessions, clients, projects, audits, nextAuditId,
                   rows, nextRowId, proc>>

----------------------------------------------------------------------------
(* Login and logout requests, and a protected page *)

\* The user tables: accounts of these names, each with one of two
\* passwords, active or not
UserTables ==
    LET
        Usernames == {"testuser", "bob", "mallory"}
    IN
    UNION {[names -> [password : {MakePassword("password"), MakePassword("hunter2")},
                      is_active : BOOLEAN]] : names \in SUBSET Usernames}

\* The user tables the store starts with: the one of the tests, with the
\* deactivated account, without it, and with that account active
InitUserTables ==
    {SeedUsers,
     [u \in {"testuser"} |-> SeedUsers[u]],
     [SeedUsers EXCEPT !["bob"].is_active = TRUE]}

\* The requests posted to login-ajax/: JSON, a form, a form sent by script
LoginRequests ==
    LET
        LoginBodies ==
            LET
                \* What is typed into the login form
                UsernameInputs ==
                    {Str("testuser"), Str(" testuser "), Str("bob"), Str("mallory"),
                     Str("  "), Absent}
            IN
            LET
                PasswordInputs == {Str("password"), Str("hunter2"), Absent}
            IN
            {Body([k \in {"username", "password"} |->
                    IF k = "username" THEN u ELSE pw]) :
                u \in UsernameInputs, pw \in PasswordInputs}
            \cup {Body([k \in {"password"} |-> Str("password")])}
    IN
    {<<JsonType, FALSE, b>> : b \in LoginBodies \cup {Malformed}}
    \cup {<<FormType, x, b>> : x \in BOOLEAN, b \in LoginBodies}

InitAuth ==
    /\ rows = {}
    /\ nextRowId = SeedRowIds
    /\ related = SeedRelated
    /\ clients = [c \in {1, 2} |-> IF c = 1 THEN SeedClient ELSE OtherClient]
    /\ outbox = <<>>
    /\ resp = NoResp
    /\ req = NoReq
    /\ users \in InitUserTables
    /\ sessions = [s \in Sessions |-> NoUser]
    /\ projects = [p \in {1} |-> SeedProject]
    /\ audits = [a \in {1} |-> SeedAudit]
    /\ nextAuditId = 2
    /\ proc = [p \in Procs |-> IdleProc]

NextAuth ==
    \/ \E s \in Sessions, r \in LoginRequests : LoginPost(s, r[1], r[2], r[3])
    \/ \E s \in Sessions, c \in ContentTypes, x \in BOOLEAN : LogoutPost(s, c, x)
    \/ \E s \in Sessions, pk \in {1, 2} : AuditDetailGet(s, pk)

SpecAuth == InitAuth /\ [][NextAuth]_vars

----------------------------------------------------------------------------
(* The site: the views of urls.py, requested from two browser sessions *)

\* Mails the outbox may hold
MaxMail == 1

\* What the mail backend raises when it cannot deliver
TransportErrors == {"Connection refused"}

Init ==
    /\ InitStore
    /\ sessions = [s \in Sessions |-> NoUser]
    /\ projects = [p \in {1} |-> SeedProject]
    /\ audits = [a \in {1} |-> SeedAudit]
    /\ nextAuditId = 2
    /\ proc = [p \in Procs |-> IdleProc]

Next ==
    LET
        ShareBodies ==
            {Body([k \in {"to_email", "message"} |->
                    IF k = "to_email" THEN Str(e) ELSE Str("Please review")]) :
                e \in {"new@example.com", "not-an-email"}}
    IN
    LET
        \* ?page= of the dashboard: absent, a page, a page past the last one
        PageInputs == {Absent, IntNum(1), IntNum(2)}
    IN
    LET
        SiteUpdateRequests == {<<JsonType, Body(ClientTestPayload)>>}
    IN
    LET
        SiteLoginRequests ==
            {<<JsonType, FALSE,
               Body([k \in {"username", "password"} |->
                       IF k = "username" THEN Str("testuser") ELSE Str("password")])>>,
             <<FormType, FALSE,
               Body([k \in {"username", "password"} |->
                       IF k = "username" THEN Str("mallory") ELSE Str("password")])>>}
    IN
    \/ \E s \in Sessions, r \in SiteLoginRequests :
          LoginPost(s, r[1], r[2], r[3])
    \/ \E s \in Sessions : LogoutPost(s, JsonType, FALSE)
    \/ \E s \in Sessions : DashboardGet(s)
    \/ \E s \in Sessions : ClientDashboardGet(s)
    \/ \E s \in Sessions, page \in PageInputs : ReportDashboardGet(s, page)
    \/ \E s \in Sessions, pk \in {1, 3} : ClientDetailGet(s, pk)
    \/ \E s \in Sessions, pk \in {1, 3}, r \in SiteUpdateRequests :
          ClientUpdatePost(s, pk, r[1], r[2])
    \/ \E s \in Sessions, pk \in {1, 3} : AuditDetailGet(s, pk)
    \/ \E s \in Sessions : AuditCreateGet(s)
    \/ \E s \in Sessions, r \in AnonymousCreateRequests :
          /\ nextAuditId <= MaxAuditId
          /\ AuditCreatePost(s, r[1], r[2])
    \/ \E s \in Sessions, pk \in {1, 3}, b \in ShareBodies,
          e \in {None} \cup TransportErrors :
          /\ Len(outbox) < MaxMail
          /\ AuditSharePost(s, pk, JsonType, b, e)

Spec == Init /\ [][Next]_vars

----------------------------------------------------------------------------
(* The report dashboard over stores of several sizes *)

\* The largest number of audits in the store
MaxPagedAudits == 25

InitPage ==
    LET
        \* Audit i is dated 31 - i January 2026; with tie, the audit that follows
        \* the first ten has the date of the tenth
        PagedAudits(n, tie) ==
            [i \in 1..n |->
                [SeedAudit EXCEPT !.audit_date =
                    IF tie /\ i = PageSize + 1 THEN 20260131 - PageSize
                    ELSE 20260131 - i]]
    IN
    LET
        \* Numbers of audits: none, one, a full page, one more, two pages, the most
        PagedCounts ==
            {0, 1, PageSize, PageSize + 1, 2 * PageSize, MaxPagedAudits}
    IN
    /\ InitStore
    /\ sessions = [s \in Sessions |-> IF s = "s1" THEN "testuser" ELSE NoUser]
    /\ projects = [p \in {1} |-> SeedProject]
    /\ \E n \in PagedCounts, tie \in BOOLEAN :
          /\ audits = PagedAudits(n, tie)
          /\ nextAuditId = n + 1
    /\ proc = [p \in Procs |-> IdleProc]

NextPage ==
    LET
        \* ?page= of the dashboard
        PageParams ==
            {Absent, Str("abc"), Num(1500, 1), IntNum(0 - 1), IntNum(0), IntNum(1),
             IntNum(2), IntNum(3), IntNum(4), IntNum(99)}
    IN
    \E s \in Sessions, page \in PageParams : ReportDashboardGet(s, page)

SpecPage == InitPage /\ [][NextPage]_vars

----------------------------------------------------------------------------
(* Share-audit requests *)

ShareRequests ==
    LET
        \* to_email as submitted: addresses, blanks, nothing
        RecipientInputs ==
            {Str("new@example.com"), Str(" new@example.com "), Str("user@localhost"),
             Str("not-an-email"), Str("a@b"), Str(".new@example.com"),
             Str("new@example.c"), Str("  "), Absent}
    IN
    {<<JsonType, Body([k \in {"to_email", "message"} |->
                        IF k = "to_email" THEN e ELSE Str("Please see report")])>> :
        e \in RecipientInputs}
    \cup {<<JsonType, Body([k \in {"to_email"} |-> Str("new@example.com")])>>,
          <<JsonType, Malformed>>,
          <<FormType, Body([k \in {"to_email"} |-> Str("new@example.com")])>>}

InitShare ==
    /\ InitStore
    /\ sessions = [s \in Sessions |-> IF s = "s1" THEN "testuser" ELSE NoUser]
    /\ projects = [p \in {1} |-> SeedProject]
    /\ audits = [a \in {1, 2} |->
                    IF a = 1 THEN SeedAudit
                    ELSE [SeedAudit EXCEPT !.report_number = "R-002"]]
    /\ nextAuditId = 3
    /\ proc = [p \in Procs |-> IdleProc]

NextShare ==
    \E s \in Sessions, pk \in {1, 2, 3}, r \in ShareRequests,
       e \in {None} \cup TransportErrors :
        /\ Len(outbox) < MaxMail
        /\ AuditSharePost(s, pk, r[1], r[2], e)

SpecShare == InitShare /\ [][NextShare]_vars

----------------------------------------------------------------------------
(* The four views of urls.py that take a primary key, with every request   *)
(* of the update-client and share-audit specifications                     *)

NextRecord ==
    LET
        \* Primary keys requested: one that names a Client and an Audit, and
        \* two that name neither
        RecordKeys == {1, 3, 99}
    IN
    \/ \E s \in Sessions, pk \in RecordKeys : ClientDetailGet(s, pk)
    \/ \E s \in Sessions, pk \in RecordKeys, r \in ClientUpdateRequests :
          ClientUpdatePost(s, pk, r[1], r[2])
    \/ \E s \in Sessions, pk \in RecordKeys : AuditDetailGet(s, pk)
    \/ \E s \in Sessions, pk \in RecordKeys, r \in ShareRequests,
          e \in {None} \cup TransportErrors :
          /\ Len(outbox) < MaxMail
          /\ AuditSharePost(s, pk, r[1], r[2], e)

SpecRecord == InitShare /\ [][NextRecord]_vars

----------------------------------------------------------------------------
(* Deletes and creates through the model API over a store that holds rows  *)
(* of every table                                                          *)

\* Number of rows inserted into ActionItem, SitePersonnel and
\* VisualObservation, all three together and the rows of the initial state
\* included
MaxRelated == 3

\* <owner>.delete(): the Collector follows client / consulting_engineer /
\* principal_contractor to the Projects, Audit.project to their Audits and
\* the audit key of every other table to the Audits' rows, and deletes all of
\* them in one transaction; delete() returns the number of rows deleted
OwnerDelete(table, id) ==
    LET field == CASE table = "Client" -> "client"
                   [] table = "ConsultingFirm" -> "consulting_engineer"
                   [] OTHER -> "principal_contractor"
        P == {p \in DOMAIN projects : projects[p][field] = id}
        gone == AuditsOf(P)
        me == {r \in related : r.table = table /\ r.id = id}
    IN
    /\ IF table = "Client" THEN id \in DOMAIN clients ELSE me # {}
    /\ req' = [op |-> "delete_owner", table |-> table, id |-> id]
    /\ resp' = [kind |-> "db", result |-> "ok",
                id |-> 1 + Cardinality(P) + Cardinality(gone)
                       + Cardinality({r \in rows : r.audit \in gone})
                       + Cardinality(related \ RelatedLeft(gone))]
    /\ clients' = IF table = "Client"
                  THEN [c \in DOMAIN clients \ {id} |-> clients[c]]
                  ELSE clients
    /\ projects' = [x \in DOMAIN projects \ P |-> projects[x]]
    /\ audits' = [a \in DOMAIN audits \ gone |-> audits[a]]
    /\ rows' = {r \in rows : r.audit \notin gone}
    /\ related' = RelatedLeft(gone) \ me
    /\ UNCHANGED <<users, sessions, nextAuditId, nextRowId, outbox, proc>>

\* Mutant: ActionItem.risk_rating is declared with on_delete=models.CASCADE.
RatingCascade(id) ==
    {r \in related : ~(r.table = "ActionItem" /\ r.risk_rating = id)}

\* risk_rating = models.ForeignKey(RiskRating, on_delete=models.SET_NULL,
\* null=True, blank=True): the rows of the other tables after the rating id
\* stopped being referenced
RatingSetNull(id) ==
    {IF r.table = "ActionItem" /\ r.risk_rating = id
     THEN [r EXCEPT !.risk_rating = 0] ELSE r : r \in related}

\* rating.delete()
RiskRatingDelete(id) ==
    LET me == {r \in related : r.table = "RiskRating" /\ r.id = id} IN
    /\ me # {}
    /\ req' = [op |-> "delete_rating", table |-> "RiskRating", id |-> id]
    /\ resp' = [kind |-> "db", result |-> "ok", id |-> 1]
    /\ related' = RatingSetNull(id) \ me
    /\ UNCHANGED <<users, sessions, clients, projects, audits, nextAuditId,
                   rows, nextRowId, outbox, proc>>

\* ActionItem.objects.create(audit=a, risk_rating=rating, ..) /
\* SitePersonnel.objects.create(audit=a, ..) /
\* VisualObservation.objects.create(audit=a, ..): the INSERT is refused when
\* a referenced row is missing, and for SitePersonnel (a OneToOneField) when
\* the audit has its row already
ChildCreate(table, a, rating) ==
    LET out ==
            IF AuditFkViolated(a) THEN FkError
            ELSE IF rating # 0
                    /\ ~\E r \in related : /\ r.table = "RiskRating"
                                           /\ r.id = rating
            THEN FkError
            ELSE IF table = "SitePersonnel"
                    /\ \E r \in related : r.table = table /\ r.audit = a
            THEN UniqueError
            ELSE "ok"
    IN
    /\ nextRowId["ActionItem"] + nextRowId["SitePersonnel"]
       + nextRowId["VisualObservation"] - 3 < MaxRelated
    /\ table = "ActionItem" \/ rating = 0
    /\ req' = [op |-> "create_child", table |-> table, id |-> a]
    /\ resp' = [kind |-> "db", result |-> out,
                id |-> IF out = "ok" THEN nextRowId[table] ELSE 0]
    /\ IF out = "ok"
       THEN /\ related' = related \cup
                    {RelatedRow(table, nextRowId[table], a, rating)}
            /\ nextRowId' = [nextRowId EXCEPT ![table] = @ + 1]
       ELSE UNCHANGED <<related, nextRowId>>
    /\ UNCHANGED <<users, sessions, clients, projects, audits, nextAuditId,
                   rows, outbox, proc>>

\* Audit.objects.create(project=pr, ..)
AuditModelCreate(pr) ==
    LET bad == ProjectFkViolated(pr) IN
    /\ nextAuditId <= MaxAuditId
    /\ req' = [op |-> "create_audit", table |-> "Audit", id |-> pr]
    /\ resp' = [kind |-> "db", result |-> IF bad THEN FkError ELSE "ok",
                id |-> IF bad THEN 0 ELSE nextAuditId]
    /\ IF bad THEN UNCHANGED <<audits, nextAuditId>>
       ELSE /\ audits' = [a \in DOMAIN audits \cup {nextAuditId} |->
                            IF a = nextAuditId
                            THEN [SeedAudit EXCEPT !.project = pr]
                            ELSE audits[a]]
            /\ nextAuditId' = nextAuditId + 1
    /\ UNCHANGED <<related, users, sessions, clients, projects, rows,
                   nextRowId, outbox, proc>>

\* Two projects of two clients with one audit each; a checklist row of each
\* audit; two risk ratings, and an action item of each audit that references
\* one of them
InitCascade ==
    /\ users = SeedUsers
    /\ sessions = [s \in Sessions |-> NoUser]
    /\ clients = [c \in {1, 2} |-> IF c = 1 THEN SeedClient ELSE OtherClient]
    /\ projects = [p \in {1, 2} |-> [SeedProject EXCEPT !.client = p]]
    /\ audits = [a \in {1, 2} |-> [SeedAudit EXCEPT !.project = a]]
    /\ nextAuditId = 3
    /\ rows = {NewRow("LegalAppointment", a, a, "CEO_16_1",
                      DefaultRequiredScore, 2) : a \in {1, 2}}
    /\ related = SeedRelated \cup
                 {RatingRow(1, "CRITICAL"),
                  RatingRow(2, "HIGH"),
                  RelatedRow("ActionItem", 1, 1, 1),
                  RelatedRow("ActionItem", 2, 2, 2)}
    /\ nextRowId = [SeedRowIds EXCEPT !["LegalAppointment"] = 3,
                                      !["RiskRating"] = 3,
                                      !["ActionItem"] = 3]
    /\ outbox = <<>>
    /\ resp = NoResp
    /\ req = NoReq
    /\ proc = [p \in Procs |-> IdleProc]

NextCascade ==
    LET
        \* The tables a Project references with on_delete=models.CASCADE
        OwnerTables == {"Client", "ConsultingFirm", "PrincipalContractor"}
    IN
    \/ \E table \in OwnerTables, id \in {1, 2} : OwnerDelete(table, id)
    \/ \E p \in DOMAIN projects : ProjectDelete(p)
    \/ \E a \in DOMAIN audits : AuditDelete(a)
    \/ \E id \in {1, 2} : RiskRatingDelete(id)
    \/ \E pr \in {1, 2} : AuditModelCreate(pr)
    \/ \E table \in AuditChildTables, a \in 1..MaxAuditId, rating \in {0, 2} :
          ChildCreate(table, a, rating)

SpecCascade == InitCascade /\ [][NextCascade]_vars

----------------------------------------------------------------------------
(* manage.py load_sample_audit run from start to end, one run after the    *)
(* other, on a store that starts empty; between the runs rows are deleted  *)
(* and risk ratings are inserted through the model API.  In these stores   *)
(* no lookup of the command finds more than one row.                       *)

\* Number of rows inserted, all tables together, before the last run of the
\* command or insert of a rating starts
MaxLoaded == 18

\* Mutant: the command calls objects.create() for every entry.
MissingAlways(keys, held) == DOMAIN keys

\* get_or_create, called for the entries of keys in order: the entries
\* whose lookup finds no row among the rows that hold the keys held
Missing(keys, held) == {i \in DOMAIN keys : keys[i] \notin held}

\* Mutant: RiskRating.level is declared without unique=True.
LevelNotUnique(level) == FALSE

\* level = models.CharField(.., unique=True): the unique index refuses a
\* second row of the level
LevelUnique(level) ==
    \E r \in related : r.table = "RiskRating" /\ r.level = level

\* RiskRating.objects.create(level=level, time_frame=..)
RiskRatingCreate(level) ==
    LET bad == LevelUnique(level) IN
    /\ req' = [op |-> "create_rating", table |-> "RiskRating", level |-> level]
    /\ resp' = [kind |-> "db", result |-> IF bad THEN UniqueError ELSE "ok",
                id |-> IF bad THEN 0 ELSE nextRowId["RiskRating"]]
    /\ IF bad THEN UNCHANGED <<related, nextRowId>>
       ELSE /\ related' = related \cup
                    {RatingRow(nextRowId["RiskRating"], level)}
            /\ nextRowId' = [nextRowId EXCEPT !["RiskRating"] = @ + 1]
    /\ UNCHANGED <<users, sessions, clients, projects, audits, nextAuditId,
                   rows, outbox, proc>>

\* Command.handle(): get_or_create of the client, the consulting firm, the
\* contractor, the project, the audit, the legal appointments, the risk
\* ratings and the action items, in this order; the entries of a list get
\* their primary keys in list order.  resp holds the number of rows created.
LoadSampleAudit ==
    LET Rank(miss, i) == Cardinality({j \in miss : j < i})
        Owner(table) == {r \in related : r.table = table}
        \* Client.objects.get_or_create(name="MBOMBELA MUNICIPALITY", ..)
        cname == "MBOMBELA MUNICIPALITY"
        cnew == Missing(<<cname>>, {clients[c].name : c \in DOMAIN clients}) # {}
        cid == IF cnew THEN nextRowId["Client"]
               ELSE CHOOSE c \in DOMAIN clients : clients[c].name = cname
        \* ConsultingFirm.objects.get_or_create(name="MK DUBE CONSULTING", ..)
        fname == "MK DUBE CONSULTING"
        fnew == Missing(<<fname>>, {r.name : r \in Owner("ConsultingFirm")}) # {}
        fid == IF fnew THEN nextRowId["ConsultingFirm"]
               ELSE (CHOOSE r \in Owner("ConsultingFirm") : r.name = fname).id
        \* PrincipalContractor.objects.get_or_create(name="GABBY CONSTRUCTION", ..)
        kname == "GABBY CONSTRUCTION"
        knew == Missing(<<kname>>,
                        {r.name : r \in Owner("PrincipalContractor")}) # {}
        kid == IF knew THEN nextRowId["PrincipalContractor"]
               ELSE (CHOOSE r \in Owner("PrincipalContractor") :
                        r.name = kname).id
        \* Project.objects.get_or_create(permit_number="MP-CWP/328/09/2024", ..)
        permit == "MP-CWP/328/09/2024"
        pnew == Missing(<<permit>>,
                        {projects[x].permit_number : x \in DOMAIN projects}) # {}
        pid == IF pnew THEN nextRowId["Project"]
               ELSE CHOOSE x \in DOMAIN projects :
                        projects[x].permit_number = permit
        \* Audit.objects.get_or_create(report_number="CHS-LSC-2025/06", ..)
        report == LoaderAudit(pid).report_number
        anew == Missing(<<report>>,
                        {audits[a].report_number : a \in DOMAIN audits}) # {}
        aid == IF anew THEN nextAuditId
               ELSE CHOOSE a \in DOMAIN audits : audits[a].report_number = report
        \* LegalAppointment.objects.get_or_create(audit=audit,
        \*     appointment_type=.., defaults={..})
        codes == [i \in DOMAIN LoaderAppointments |-> LoaderAppointments[i][1]]
        lmiss == Missing(codes,
                    {r.item_type : r \in {x \in rows :
                        x.category = "LegalAppointment" /\ x.audit = aid}})
        \* RiskRating.objects.get_or_create(level=level, defaults={..})
        levels == <<"CRITICAL", "HIGH", "MEDIUM", "LOW">>
        rmiss == Missing(levels, {r.level : r \in Owner("RiskRating")})
        \* ActionItem.objects.get_or_create(audit=audit, description=..,
        \*     defaults={..})
        items == <<"To ensure that all management and supervision personnel",
                   "Ensure that a breathalyser is readily available on site",
                   "Ensure Traffic Accommodation Layout Plan is displayed">>
        imiss == Missing(items,
                    {r.description : r \in {x \in Owner("ActionItem") :
                        x.audit = aid}})
        Count(b) == IF b THEN 1 ELSE 0
    IN
    /\ req' = [op |-> "load", table |-> "all"]
    /\ resp' = [kind |-> "db", result |-> "ok",
                id |-> Count(cnew) + Count(fnew) + Count(knew) + Count(pnew)
                       + Count(anew) + Cardinality(lmiss) + Cardinality(rmiss)
                       + Cardinality(imiss)]
    /\ clients' = IF cnew
                  THEN [c \in DOMAIN clients \cup {cid} |->
                          IF c = cid
                          THEN [name |-> cname, contact_name |-> None,
                                contact_email |-> None, contact_phone |-> None,
                                address |-> None]
                          ELSE clients[c]]
                  ELSE clients
    /\ projects' = IF pnew
                   THEN [x \in DOMAIN projects \cup {pid} |->
                           IF x = pid
                           THEN [title |-> "PAVING OF GOROMANE TO KAMABUZA",
                                 permit_number |-> permit,
                                 location |-> "Shabalala Ward 1",
                                 client |-> cid, consulting_engineer |-> fid,
                                 principal_contractor |-> kid]
                           ELSE projects[x]]
                   ELSE projects
    /\ audits' = IF anew
                 THEN [a \in DOMAIN audits \cup {aid} |->
                         IF a = aid THEN LoaderAudit(pid) ELSE audits[a]]
                 ELSE audits
    /\ nextAuditId' = nextAuditId + Count(anew)
    /\ rows' = rows \cup
          {NewRow("LegalAppointment",
                  nextRowId["LegalAppointment"] + Rank(lmiss, i), aid,
                  codes[i], 2, LoaderAppointments[i][2]) : i \in lmiss}
    /\ related' = related
          \cup (IF fnew THEN {NamedRow("ConsultingFirm", fid, fname)} ELSE {})
          \cup (IF knew THEN {NamedRow("PrincipalContractor", kid, kname)}
                ELSE {})
          \cup {RatingRow(nextRowId["RiskRating"] + Rank(rmiss, i), levels[i]) :
                    i \in rmiss}
          \cup {[RelatedRow("ActionItem",
                            nextRowId["ActionItem"] + Rank(imiss, i), aid, 0)
                    EXCEPT !.description = items[i]] : i \in imiss}
    /\ nextRowId' = [t \in DOMAIN nextRowId |->
          nextRowId[t] +
            CASE t = "Client" -> Count(cnew)
              [] t = "ConsultingFirm" -> Count(fnew)
              [] t = "PrincipalContractor" -> Count(knew)
              [] t = "Project" -> Count(pnew)
              [] t = "LegalAppointment" -> Cardinality(lmiss)
              [] t = "RiskRating" -> Cardinality(rmiss)
              [] t = "ActionItem" -> Cardinality(imiss)
              [] OTHER -> 0]
    /\ UNCHANGED <<users, sessions, outbox, proc>>

\* The empty store
InitLoad ==
    /\ users = SeedUsers
    /\ sessions = [s \in Sessions |-> NoUser]
    /\ clients = [c \in {} |-> SeedClient]
    /\ projects = [p \in {} |-> SeedProject]
    /\ audits = [a \in {} |-> SeedAudit]
    /\ nextAuditId = 1
    /\ rows = {}
    /\ related = {}
    /\ nextRowId = [t \in DOMAIN SeedRowIds \cup {"Client", "Project"} |-> 1]
    /\ outbox = <<>>
    /\ resp = NoResp
    /\ req = NoReq
    /\ proc = [p \in Procs |-> IdleProc]

NextLoad ==
    LET Sum[S \in SUBSET DOMAIN nextRowId] ==
            IF S = {} THEN 0
            ELSE LET t == CHOOSE x \in S : TRUE
                 IN (nextRowId[t] - 1) + Sum[S \ {t}]
        \* rows inserted so far
        Loaded == Sum[DOMAIN nextRowId] + nextAuditId - 1
    IN
    \/ Loaded < MaxLoaded /\ LoadSampleAudit
    \/ \E level \in {"HIGH"} :
          Loaded < MaxLoaded /\ RiskRatingCreate(level)
    \/ \E r \in related : r.table = "RiskRating" /\ RiskRatingDelete(r.id)
    \/ \E table \in {"Client", "ConsultingFirm", "PrincipalContractor"} :
          OwnerDelete(table, 1)
    \/ \E p \in DOMAIN projects : ProjectDelete(p)
    \/ \E a \in DOMAIN audits : AuditDelete(a)

SpecLoad == InitLoad /\ [][NextLoad]_vars

----------------------------------------------------------------------------
(* Checklist properties *)

SamePair(r1, r2) ==
    /\ r1.category = r2.category
    /\ r1.audit = r2.audit
    /\ r1.item_type = r2.item_type

AtMostOnePerPair == \A r1, r2 \in rows : SamePair(r1, r2) => r1 = r2

\* What an insert into the tables does, as a relation of the state before
\* and after it.
InsertIsFirstOrRefused ==
    \A cat \in Categories, a \in SeedAuditIds, s \in ActualScoreInputs :
      \A code \in ItemCodes(cat) :
        ChecklistCreate(cat, a, code, s) =>
            IF RowsOf(rows, cat, a, code) # {}
            THEN rows' = rows /\ resp'.result = UniqueError
            ELSE a \in DOMAIN audits =>
                    /\ resp'.result = "ok"
                    /\ rows \subseteq rows'
                    /\ Cardinality(RowsOf(rows', cat, a, code)) = 1

\* C1: every checklist table holds at most one row per (audit, item type)
\* in every reachable state; an insert of a pair no row holds adds one row,
\* and an insert of a pair a row holds fails with the uniqueness error and
\* leaves every row as it was.
C1_UniquePerAuditItem == []AtMostOnePerPair /\ [][InsertIsFirstOrRefused]_vars

\* C1 witness: a second insert of a pair was refused and the row is there.
C1_Witness ==
    /\ req.op = "create"
    /\ resp.kind = "db"
    /\ resp.result = UniqueError
    /\ rows # {}

\* C2: when two concurrent get_or_create calls name the same
\* (audit, item type), no interleaving leaves two rows for the pair; once
\* both have returned exactly one of them has inserted, and the one that
\* did not either found the row in its SELECT or, having found none, had
\* its INSERT refused by the uniqueness constraint.
C2_RaceOneWinner ==
    /\ AtMostOnePerPair
    /\ \A p, q \in Procs :
          ( /\ p # q
            /\ proc[p].pc = "done" /\ proc[q].pc = "done"
            /\ proc[p].category = proc[q].category
            /\ proc[p].audit = proc[q].audit
            /\ proc[p].item_type = proc[q].item_type )
          => /\ proc[p].created # proc[q].created
             /\ ~proc[p].created =>
                    IF proc[p].seen THEN proc[p].outcome = "found"
                    ELSE proc[p].outcome = UniqueError
             /\ Cardinality(RowsOf(rows, proc[p].category, proc[p].audit,
                                   proc[p].item_type)) = 1

\* C2 witness: both calls passed their SELECT before either inserted, and
\* the second INSERT was refused.
C2_Witness ==
    \E p, q \in Procs :
        /\ p # q
        /\ proc[p].pc = "done" /\ proc[q].pc = "done"
        /\ proc[p].created /\ ~proc[q].created
        /\ ~proc[q].seen /\ proc[q].outcome = UniqueError

----------------------------------------------------------------------------
(* Create-audit properties *)

ScoreFields == {"overall_score_percentage", "standard_required"}

\* The last step was a create-audit request that reached the form.
ReachedForm(r) ==
    /\ r.op = "create_audit"
    /\ r.authenticated
    /\ r.ctype = JsonType
    /\ r.body.json

ScoreStep ==
    ReachedForm(req') =>
      \A f \in ScoreFields :
        LET v == Get(req'.body.data, f) IN
        v.t = "num" =>
          /\ (v.n < 0 \/ v.n > 100000) =>
                /\ resp'.status = 400
                /\ ~resp'.success
                /\ f \in DOMAIN resp'.errors
                /\ audits' = audits
          /\ (v.n \in {0, 100000} /\ v.p <= 2) => f \notin DOMAIN resp'.errors
          /\ resp'.success =>
                /\ v.n >= 0 /\ v.n <= 100000
                /\ audits'[resp'.id][f] = v.n

\* C3: a create-audit submission whose overall_score_percentage or
\* standard_required is a number below 0 or above 100 is answered 400 with
\* an error under that field's name and persists no Audit; the values 0 and
\* 100 (written with at most two decimals) raise no error on the field; a
\* persisted Audit holds the submitted score itself, never a clamped one.
C3_ScoreRange == [][ScoreStep]_vars

\* C3 witness: an Audit with score 100 was accepted, and the submission of
\* 100.01 has just been refused with an error on the field.
C3_Witness ==
    /\ ReachedForm(req)
    /\ Get(req.body.data, "overall_score_percentage") = Num(100010, 2)
    /\ resp.status = 400
    /\ "overall_score_percentage" \in DOMAIN resp.errors
    /\ "max_value" \in resp.errors["overall_score_percentage"]
    /\ \E a \in DOMAIN audits : audits[a].overall_score_percentage = 100000

CreateStep ==
    (req'.op = "create_audit" /\ req'.authenticated) =>
      IF req'.ctype = JsonType /\ req'.body.json
            /\ AuditFormIsValid(req'.body.data)
      THEN /\ resp'.success /\ resp'.status = 200
           /\ resp'.id \notin DOMAIN audits
           /\ DOMAIN audits' = DOMAIN audits \cup {resp'.id}
           /\ \A a \in DOMAIN audits : audits'[a] = audits[a]
           /\ audits'[resp'.id] = AuditCleaned(req'.body.data)
      ELSE /\ ~resp'.success /\ resp'.status = 400
           /\ audits' = audits

\* C4: a create-audit submission whose payload validates persists exactly
\* one new Audit and answers success=true with the id of that Audit; any
\* other submission answers success=false with status 400 and leaves the
\* Audit table as it was.
C4_CreateAllOrNothing == [][CreateStep]_vars

\* C4 witness: a submission was answered with the id of an Audit that
\* exists.
C4_Witness ==
    /\ req.op = "create_audit"
    /\ resp.kind = "json" /\ resp.success
    /\ resp.id \in DOMAIN audits
    /\ audits[resp.id] = AuditCleaned(req.body.data)

\* Every Audit references a Project of the store.
NoOrphanAudit == \A a \in DOMAIN audits : audits[a].project \in DOMAIN projects

\* Validation of a payload whose project names no Project, as a relation
\* of the state before and after it.
ValidateStep ==
    (req'.op = "validate" /\ req'.authenticated) =>
      LET v == Get(req'.data, "project") IN
      (v.t # "num" \/ (v.n \div 1000) \notin DOMAIN projects) =>
          /\ resp'.kind = "json" /\ resp'.status = 400 /\ ~resp'.success
          /\ "project" \in DOMAIN resp'.errors
          /\ audits' = audits
          /\ proc' = proc

\* C5: a create-audit submission whose project names no existing Project
\* is answered 400 with an error on project and persists nothing; and in
\* every reachable state, whatever the interleaving of the steps of
\* create-audit requests and of project deletions, every Audit references
\* an existing Project.
C5_NoOrphanAudit == []NoOrphanAudit /\ [][ValidateStep]_vars

\* C5 witness: a request validated against a project that was deleted
\* before its save, and the save was refused.
C5_Witness ==
    /\ req.op = "save"
    /\ resp.kind = "error"
    /\ AuditCleaned(req.data).project \notin DOMAIN projects
    /\ NoOrphanAudit

----------------------------------------------------------------------------
(* Update-client properties *)

\* An update of an existing client by a logged-in user, with a body that
\* parses.
ReachedClientForm(r) ==
    /\ r.op = "update_client"
    /\ r.authenticated
    /\ r.pk \in DOMAIN clients
    /\ r.body.json

AllowListStep ==
    ReachedClientForm(req') =>
      LET data == req'.body.data
          extra == DOMAIN data \ AllowedKeys
      IN
      extra # {} =>
        /\ resp'.kind = "json"
        /\ DOMAIN resp'.errors \cap extra = {}
        /\ resp' = ClientUpdateResponse(JsonType, Body(Allowed(data)))
        /\ DOMAIN clients' = DOMAIN clients
        /\ clients'[req'.pk].name = clients[req'.pk].name
        /\ \A c \in DOMAIN clients \ {req'.pk} : clients'[c] = clients[c]

\* C6: an update-client request that submits a field outside contact_name,
\* contact_email, contact_phone and address (name, id) is answered as the
\* same request without that field is (no error names the field), and it
\* leaves the name and the primary key of the Client, and every other
\* Client, unchanged; on the JSON path and on the form-encoded path.
C6_AllowList == [][AllowListStep]_vars

\* C6 witness: a form-encoded update carrying a name was saved, and the
\* Client still has its name.
C6_Witness ==
    /\ ReachedClientForm(req)
    /\ req.ctype = FormType
    /\ "name" \in DOMAIN req.body.data
    /\ resp.success
    /\ clients[req.pk].contact_name = "New Contact"
    /\ clients[req.pk].name \in {"ACME", "BETA"}

----------------------------------------------------------------------------
(* Session properties *)

\* The submitted username and password are those of an active account.
MatchesActiveAccount(db, username, password) ==
    /\ username \in DOMAIN db
    /\ CheckPassword(password, db[username].password)
    /\ db[username].is_active

\* The answer of a login that succeeded sends the caller to the dashboard.
LoginSucceeded(r) == r.location = "/dashboard/"

SessionStep ==
    LET s == req'.session
        u == SubmittedUsername(req'.body.data)
        pw == SubmittedPassword(req'.body.data)
    IN
    /\ \A t \in Sessions :
          (sessions[t] = NoUser /\ sessions'[t] # NoUser) =>
            /\ req'.op = "login" /\ t = s
            /\ req'.body.json \/ req'.ctype = FormType
            /\ MatchesActiveAccount(users, u, pw)
            /\ sessions'[t] = u
    /\ \A t \in Sessions :
          (sessions[t] # NoUser /\ sessions'[t] = NoUser) =>
            req'.op = "logout" /\ t = s
    /\ req'.op = "login" =>
          /\ LoginSucceeded(resp') <=>
                /\ req'.body.json \/ req'.ctype = FormType
                /\ MatchesActiveAccount(users, u, pw)
          /\ sessions'[s] = IF LoginSucceeded(resp') THEN u ELSE sessions[s]
    /\ req'.op = "logout" =>
          /\ sessions'[s] = NoUser
          /\ DOMAIN resp'.errors = {} <=> sessions[s] # NoUser
    /\ req'.op = "audit_detail" =>
          /\ sessions' = sessions
          /\ sessions[s] = NoUser =>
                resp' = Redirect("/?next=") /\ resp'.data = <<>>
          /\ (req.op = "logout" /\ req.session = s) =>
                resp' = Redirect("/?next=")

\* C8: a session becomes Authenticated only by a login on that session
\* whose username and password are those of an active account, and becomes
\* Anonymous only by a logout on that session; a login succeeds exactly
\* when the credentials match an active account and then binds the session
\* to that user, a failed login leaves the session as it was, a logout
\* leaves the session Anonymous, and a protected request on an Anonymous
\* session, in particular right after its logout, is redirected to the
\* login page.
C8_SessionStateMachine == [][SessionStep]_vars

\* C8 witness: a session that was logged in has logged out, while the other
\* session is still logged in.
C8_Witness ==
    /\ req.op = "logout"
    /\ req.authenticated
    /\ DOMAIN resp.errors = {}
    /\ sessions[req.session] = NoUser
    /\ \E t \in Sessions : sessions[t] = "testuser"

\* The username is not in the user table db.
UnknownUsername(db, username) == username \notin DOMAIN db

\* The username is in the user table db, with another password.
WrongPassword(db, username, password) ==
    /\ username \in DOMAIN db
    /\ ~CheckPassword(password, db[username].password)

\* C9: the answer to the last login request, whose username is unknown
\* (or known with another password), is the answer the same request gets
\* on every user table where that username is known with another password
\* (or unknown); when both a username and a password were submitted it
\* carries the message 'Invalid username or password.' and no other, with
\* status 400 on the JSON path and as a flashed message of the redirect to
\* the index page on the form path; and the session is left as it was.
C9_NoAccountEnumeration ==
    req.op = "login" /\ (req.body.json \/ req.ctype = FormType) =>
      LET u == SubmittedUsername(req.body.data)
          pw == SubmittedPassword(req.body.data)
      IN
      \A db \in UserTables :
        (\/ UnknownUsername(users, u) /\ WrongPassword(db, u, pw)
         \/ WrongPassword(users, u, pw) /\ UnknownUsername(db, u)) =>
          /\ resp = LoginResponse(db, req.ctype, req.xhr, req.body)
          /\ ~LoginSucceeded(resp)
          /\ (u # "" /\ pw # "") =>
                IF req.ctype = JsonType
                THEN /\ resp.kind = "json"
                     /\ resp.status = 400
                     /\ resp.errors =
                          [f \in {"__all__"} |-> {"Invalid username or password."}]
                ELSE /\ resp.kind = "redirect"
                     /\ resp.location = "/"
                     /\ resp.errors =
                          [f \in {"messages"} |-> {"Invalid username or password."}]

\* C9 witness: a JSON login as a username the user table does not hold was
\* answered 400.
C9_Witness ==
    /\ req.op = "login"
    /\ req.ctype = JsonType
    /\ req.body.json
    /\ SubmittedUsername(req.body.data) = "bob"
    /\ SubmittedPassword(req.body.data) = "hunter2"
    /\ UnknownUsername(users, "bob")
    /\ resp.status = 400

\* C10: a login with the username and the password of a deactivated
\* account is answered with the message 'This account is inactive.' and
\* not with 'Invalid username or password.', and the session stays
\* Anonymous.
C10_InactiveMessage ==
    LET u == SubmittedUsername(req.body.data)
        pw == SubmittedPassword(req.body.data)
        said == UNION {resp.errors[f] : f \in DOMAIN resp.errors}
    IN
    (/\ req.op = "login"
     /\ req.body.json \/ req.ctype = FormType
     /\ ~req.authenticated
     /\ u \in DOMAIN users
     /\ CheckPassword(pw, users[u].password)
     /\ ~users[u].is_active) =>
        /\ said = {"This account is inactive."}
        /\ sessions[req.session] = NoUser

----------------------------------------------------------------------------
(* Access properties *)

\* The views declared with LoginRequiredMixin
ProtectedOps ==
    {"dashboard", "client_list", "report_list", "client_detail",
     "update_client", "audit_detail", "create_metadata", "create_audit",
     "share"}

AnonymousStep ==
    (req'.op \in ProtectedOps /\ sessions[req'.session] = NoUser) =>
        /\ resp'.kind = "redirect"
        /\ resp'.status = 302
        /\ resp'.data = <<>>
        /\ resp'.id = 0
        /\ clients' = clients
        /\ projects' = projects
        /\ audits' = audits
        /\ nextAuditId' = nextAuditId
        /\ rows' = rows
        /\ outbox' = outbox
        /\ sessions' = sessions

\* C7: a request on an Anonymous session to the dashboard, the client
\* list, the report list, the client detail, the client update, the audit detail, the
\* create-audit metadata, the create-audit submission or the share
\* operation is answered with a redirect that carries no entity data and
\* no new id, and leaves the clients, projects, audits, checklist rows and
\* the outbox as they were.
C7_AnonymousDenied == [][AnonymousStep]_vars

\* C7 witness: an anonymous share of an existing audit to a valid address
\* was redirected and the outbox is empty, in a store where a logged-in
\* session has created an audit.
C7_Witness ==
    /\ req.op = "share"
    /\ sessions[req.session] = NoUser
    /\ req.pk \in DOMAIN audits
    /\ ValidateEmail(SubmittedRecipient(req.body.data))
    /\ resp.kind = "redirect"
    /\ Len(outbox) = 0
    /\ nextAuditId > 2

----------------------------------------------------------------------------
(* Dashboard properties *)

\* The page number a ?page= value names, 0 when it names none
PageNumber(page) ==
    IF page.t = "num" /\ page.p = 0 THEN page.n \div 1000 ELSE 0
IsPageNumber(page) == page.t = "num" /\ page.p = 0

\* ceil(N / 10), and 1 for an empty store
LastPage ==
    LET n == Cardinality(DOMAIN audits)
    IN IF n = 0 THEN 1 ELSE (n + 9) \div 10

\* data is page p of the audits in some order of non-increasing audit_date:
\* it holds min(10, N - 10(p-1)) audits, and the audit at place g of the
\* whole listing has fewer than g audits dated later and at least g audits
\* dated as late
IsPage(data, p) ==
    LET n == Cardinality(DOMAIN audits)
        rest == n - 10 * (p - 1)
        Date(a) == audits[a].audit_date
    IN
    /\ Len(data) = IF rest > 10 THEN 10 ELSE IF rest < 0 THEN 0 ELSE rest
    /\ \A i \in DOMAIN data :
          LET a == data[i][2]
              g == 10 * (p - 1) + i
          IN /\ data[i][1] = "Audit"
             /\ a \in DOMAIN audits
             /\ Cardinality({b \in DOMAIN audits : Date(b) > Date(a)}) < g
             /\ Cardinality({b \in DOMAIN audits : Date(b) >= Date(a)}) >= g
    /\ \A i, j \in DOMAIN data : i # j => data[i] # data[j]

\* A dashboard request of a logged-in session
Listed(r) == r.op = "report_list" /\ r.authenticated

\* C11: the dashboard answers every ?page= value with a page and no error;
\* page p with 1 <= p <= ceil(N/10) holds min(10, N - 10(p-1)) audits, those
\* at places 10(p-1)+1.. of the listing by audit_date descending; a missing
\* or non-numeric value gets page 1; a number beyond the last page gets the
\* last page.
C11_Pagination ==
    Listed(req) =>
      LET p == PageNumber(req.page) IN
      /\ resp.kind = "page"
      /\ resp.status = 200
      /\ (IsPageNumber(req.page) /\ 1 <= p /\ p <= LastPage) =>
            IsPage(resp.data, p)
      /\ ~IsPageNumber(req.page) => IsPage(resp.data, 1)
      /\ (IsPageNumber(req.page) /\ p > LastPage) =>
            IsPage(resp.data, LastPage)

\* C11 witness: with the most audits (25), page 3 was requested and shows
\* those after the first twenty (5).
C11_Witness ==
    /\ Listed(req)
    /\ Cardinality(DOMAIN audits) = MaxPagedAudits
    /\ req.page = IntNum(3)
    /\ Len(resp.data) = MaxPagedAudits - 20

\* C12: a page number below 1 gets page 1, and a page number above the
\* last page gets the last page.
C12_ClampToNearest ==
    (Listed(req) /\ IsPageNumber(req.page)) =>
      LET p == PageNumber(req.page) IN
      /\ p < 1 => IsPage(resp.data, 1)
      /\ p > LastPage => IsPage(resp.data, LastPage)

\* The two pages of a store of 11 to 20 audits, requested one after the
\* other, hold every audit exactly once, a later date first.
TwoPagesCover ==
    (/\ Listed(req) /\ req.page = IntNum(1)
     /\ Listed(req') /\ req'.page = IntNum(2)
     /\ audits' = audits
     /\ LastPage = 2) =>
        LET all == resp.data \o resp'.data IN
        /\ \A a \in DOMAIN audits :
              Cardinality({i \in DOMAIN all : all[i][2] = a}) = 1
        /\ \A i, j \in DOMAIN all :
              i < j => audits[all[i][2]].audit_date >=
                       audits[all[j][2]].audit_date

\* C13: the pages 1..last of the dashboard, taken together, hold every
\* audit exactly once and in non-increasing audit_date order, also when
\* audits share an audit_date.
C13_StablePagination == [][TwoPagesCover]_vars

----------------------------------------------------------------------------
(* Share-audit properties *)

\* A share request that reaches the handler with a JSON object: a logged-in
\* session, an existing audit
ReachedShare(r) ==
    /\ r.op = "share"
    /\ r.authenticated
    /\ r.pk \in DOMAIN audits
    /\ r.ctype = JsonType
    /\ r.body.json

\* Addresses as validate_email judges them
ValidAddresses == {"new@example.com", "user@localhost", "client@example.com"}
InvalidAddresses == {"not-an-email", "a@b", ".new@example.com", "new@example.c"}

\* The recipient of a request, without the blanks around it
Recipient(r) ==
    IF "to_email" \in DOMAIN r.body.data /\ r.body.data["to_email"].t = "str"
    THEN Strip(r.body.data["to_email"].s) ELSE ""

ShareStep ==
    ReachedShare(req') =>
      LET to == Recipient(req') IN
      /\ to \in ValidAddresses \cup InvalidAddresses \cup {""}
      /\ to \in InvalidAddresses \cup {""} =>
            /\ resp'.status = 400
            /\ ~resp'.success
            /\ DOMAIN resp'.errors = {"to_email"}
            /\ outbox' = outbox
      /\ (to \in ValidAddresses /\ req'.raised = None) =>
            /\ resp'.status = 200
            /\ resp'.success
            /\ Len(outbox') = Len(outbox) + 1
            /\ SubSeq(outbox', 1, Len(outbox)) = outbox
            /\ outbox'[Len(outbox')].to = to
            /\ outbox'[Len(outbox')].report_number =
                  audits[req'.pk].report_number
            /\ outbox'[Len(outbox')].link = req'.pk

\* C14: a share request whose recipient is empty or is no valid address is
\* answered 400 with an error on to_email and no message is sent; one whose
\* recipient is a valid address, when the mail backend accepts the message,
\* is answered with success and adds exactly one message to the outbox,
\* addressed to that recipient, with the report number of the audit and
\* the link to the detail view of that audit.
C14_ShareValidates == [][ShareStep]_vars

\* C14 witness: audit 2 was shared with an address submitted with blanks
\* around it, and the one message of the outbox names report R-002.
C14_Witness ==
    /\ ReachedShare(req)
    /\ req.pk = 2
    /\ req.body.data["to_email"] = Str(" new@example.com ")
    /\ resp.success
    /\ Len(outbox) = 1
    /\ outbox[1].to = "new@example.com"
    /\ outbox[1].report_number = "R-002"

ShareFrameStep ==
    req'.op = "share" =>
      /\ clients' = clients
      /\ projects' = projects
      /\ audits' = audits
      /\ nextAuditId' = nextAuditId
      /\ rows' = rows
      /\ nextRowId' = nextRowId
      /\ users' = users
      /\ (ReachedShare(req') /\ Recipient(req') \in ValidAddresses
            /\ req'.raised # None) =>
            /\ resp'.status = 500
            /\ ~resp'.success
            /\ resp'.errors =
                  [f \in {"__all__"} |->
                      {<<"Failed to send email: ", req'.raised>>}]
            /\ outbox' = outbox

----------------------------------------------------------------------------
(* Notice counters *)

NoticeFields ==
    {"improvement_notices", "contravention_notices", "prohibition_notices"}

\* C19: the three notice counters of every Audit in the store are
\* non-negative; a create-audit submission with a negative counter is
\* answered 400 with an error on that counter and persists no Audit.
C19_NoticesNonNegative ==
    /\ \A a \in DOMAIN audits : \A f \in NoticeFields : audits[a][f] >= 0
    /\ (ReachedForm(req) /\
          \E f \in NoticeFields : Get(req.body.data, f).t = "num"
                                    /\ Get(req.body.data, f).n < 0) =>
            resp.status = 400 /\ ~resp.success

----------------------------------------------------------------------------
(* Logout *)

JsonLogoutStep ==
    (req'.op = "logout" /\ req'.ctype = JsonType) =>
      LET s == req'.session IN
      /\ resp'.kind = "json"
      /\ IF sessions[s] # NoUser
         THEN /\ resp'.success
              /\ resp'.status = 200
              /\ resp'.location = "/"
              /\ sessions'[s] = NoUser
         ELSE /\ ~resp'.success
              /\ resp'.status = 400
              /\ DOMAIN resp'.errors # {}
              /\ sessions'[s] = NoUser
      /\ \A t \in Sessions \ {s} : sessions'[t] = sessions[t]

\* C20: a JSON logout on an Authenticated session is answered with
\* success=true and redirect '/', and the session is Anonymous afterwards;
\* a JSON logout on an Anonymous session is answered with success=false
\* and status 400, and the session is still Anonymous; no other session
\* changes.
C20_JsonLogout == [][JsonLogoutStep]_vars

\* C20 witness: a session logged in, logged out with a JSON request, and
\* its second JSON logout has been answered 400.
C20_Witness ==
    /\ req.op = "logout"
    /\ req.ctype = JsonType
    /\ ~req.authenticated
    /\ resp.status = 400
    /\ sessions[req.session] = NoUser
    /\ \E t \in Sessions : sessions[t] # NoUser

----------------------------------------------------------------------------
(* Delete properties *)

\* Every reference of the store names a row that exists
NoDanglingReference ==
    /\ \A p \in DOMAIN projects :
          /\ projects[p].client \in DOMAIN clients
          /\ \E r \in related : /\ r.table = "ConsultingFirm"
                                /\ r.id = projects[p].consulting_engineer
          /\ \E r \in related : /\ r.table = "PrincipalContractor"
                                /\ r.id = projects[p].principal_contractor
    /\ \A a \in DOMAIN audits : audits[a].project \in DOMAIN projects
    /\ \A r \in rows : r.audit \in DOMAIN audits
    /\ \A r \in related :
          /\ r.table \in {"ActionItem", "SitePersonnel", "VisualObservation"}
                => r.audit \in DOMAIN audits
          /\ r.risk_rating # 0 =>
                \E g \in related : g.table = "RiskRating" /\ g.id = r.risk_rating

\* The projects that reference row id of an owner table
ProjectsOfOwner(table, id) ==
    {p \in DOMAIN projects :
        \/ table = "Client" /\ projects[p].client = id
        \/ table = "ConsultingFirm" /\ projects[p].consulting_engineer = id
        \/ table = "PrincipalContractor"
              /\ projects[p].principal_contractor = id}

\* A step that deleted a set of audits deleted their checklist rows, action
\* items, personnel and observations, and no other row of those tables.
ChildrenFollow ==
    LET gone == DOMAIN audits \ DOMAIN audits' IN
    /\ rows' = {r \in rows : r.audit \notin gone}
    /\ \A t \in {"ActionItem", "SitePersonnel", "VisualObservation"} :
          {r \in related' : r.table = t}
            = {r \in related : r.table = t /\ r.audit \notin gone}

\* A delete of an owner removes the projects that reference it and their
\* audits; a delete of a project removes its audits; a delete of an audit
\* removes that audit; each removes the children of the removed audits, and
\* nothing else of Project and Audit.
CascadeStep ==
    /\ req'.op = "delete_owner" =>
          LET P == ProjectsOfOwner(req'.table, req'.id) IN
          /\ DOMAIN projects' = DOMAIN projects \ P
          /\ DOMAIN audits' =
                {a \in DOMAIN audits : audits[a].project \notin P}
          /\ ChildrenFollow
    /\ req'.op = "delete_project" =>
          /\ DOMAIN projects' = DOMAIN projects \ {resp'.id}
          /\ DOMAIN audits' =
                {a \in DOMAIN audits : audits[a].project # resp'.id}
          /\ ChildrenFollow
    /\ req'.op = "delete_audit" =>
          /\ projects' = projects
          /\ DOMAIN audits' = DOMAIN audits \ {resp'.id}
          /\ ChildrenFollow

\* C16: deleting a Client, ConsultingFirm or PrincipalContractor deletes
\* every Project that references it, every Audit of those Projects and every
\* child of those Audits; deleting an Audit deletes its checklist rows,
\* action items, personnel and observations; after any sequence of creates
\* and deletes no Project, Audit or audit child references a missing parent.
C16_CascadeIntegrity == []NoDanglingReference /\ [][CascadeStep]_vars

\* C16 witness: client 1 was deleted and took its project, the audit of it
\* and the audit's checklist row and action item with it (five rows), while
\* the project of client 2 and its audit with its children are still there.
C16_Witness ==
    /\ req.op = "delete_owner"
    /\ req.table = "Client"
    /\ req.id = 1
    /\ resp.id >= 5
    /\ 1 \notin DOMAIN projects
    /\ 1 \notin DOMAIN audits
    /\ 2 \in DOMAIN audits
    /\ \E r \in rows : r.audit = 2
    /\ \E r \in related : r.table = "ActionItem" /\ r.audit = 2

\* The action items
ActionItems(table) == {r \in table : r.table = "ActionItem"}

\* A delete of a RiskRating leaves every ActionItem in place: one that
\* referenced the rating has a null risk_rating and is otherwise as before,
\* every other one is as before.
RatingDeleteStep ==
    req'.op = "delete_rating" =>
        /\ Cardinality(ActionItems(related')) = Cardinality(ActionItems(related))
        /\ {r.id : r \in ActionItems(related')} = {r.id : r \in ActionItems(related)}
        /\ \A r \in ActionItems(related) :
              IF r.risk_rating = req'.id
              THEN [r EXCEPT !.risk_rating = 0] \in related'
              ELSE r \in related'
        /\ audits' = audits
        /\ rows' = rows

\* C17: deleting a RiskRating deletes no ActionItem; every ActionItem that
\* referenced it still exists with a null risk_rating and its other fields
\* unchanged, and the ActionItems that reference other RiskRatings are
\* untouched.
C17_RatingSetNull == [][RatingDeleteStep]_vars

\* C17 witness: rating 1 was deleted; action item 1, which the store held
\* with rating 1, is there with no rating, and action item 2 has rating 2.
C17_Witness ==
    /\ req.op = "delete_rating"
    /\ req.id = 1
    /\ RelatedRow("ActionItem", 1, 1, 0) \in related
    /\ RelatedRow("ActionItem", 2, 2, 2) \in related

----------------------------------------------------------------------------
(* Checklist value properties *)

\* C18: in every state of the store, the ones the sample-data loader
\* produces included, every checklist row has required_score and
\* actual_score in {0, 1, 2} and an item-type code of its table's choices
\* list.
C18_ChecklistValuesValid ==
    \A r \in rows :
        /\ r.required_score \in ScoreChoices
        /\ r.actual_score \in ScoreChoices
        /\ r.item_type \in ItemChoices(r.category)

----------------------------------------------------------------------------
(* Not-found properties *)

\* The request of a logged-in session names a record that the store, as it
\* is when the request arrives, does not hold.
NamesNoRecord(r) ==
    /\ r.op \in {"client_detail", "update_client", "audit_detail", "share"}
    /\ r.authenticated
    /\ IF r.op \in {"client_detail", "update_client"}
       THEN r.pk \notin DOMAIN clients
       ELSE r.pk \notin DOMAIN audits

NotFoundStep ==
    NamesNoRecord(req') =>
        /\ resp'.kind = "notfound"
        /\ resp'.status = 404
        /\ UNCHANGED <<users, clients, projects, audits, rows, related, outbox>>

\* C21: for a logged-in session, client detail, client update, audit detail
\* and share-audit with a primary key that names no record answer not found,
\* change nothing in the store and send no mail, whatever the payload and
\* the content type are.
C21_NotFound == [][NotFoundStep]_vars

\* C21 witness: share-audit for audit 3, posted form-encoded by the logged-in
\* session, was answered not found and no mail was sent.
C21_Witness ==
    /\ req.op = "share"
    /\ req.authenticated
    /\ req.pk = 3
    /\ req.ctype = FormType
    /\ resp.kind = "notfound"
    /\ outbox = <<>>

----------------------------------------------------------------------------
(* Risk rating and loader properties *)

RiskRatings == {r \in related : r.table = "RiskRating"}

\* An insert of a rating whose level a row holds is refused, and the rows of
\* the table are as they were.
DuplicateLevelStep ==
    (/\ req'.op = "create_rating"
     /\ \E r \in RiskRatings : r.level = req'.level) =>
        /\ resp'.result = UniqueError
        /\ related' = related

\* C22: no two RiskRating rows share a level, and an insert of a RiskRating
\* whose level exists fails and leaves the existing row as it was.
C22_LevelUnique ==
    /\ [](\A r, q \in RiskRatings : r.level = q.level => r = q)
    /\ [][DuplicateLevelStep]_vars

\* C22 witness: after the command loaded the four ratings, an insert of a
\* rating of level HIGH was refused, and the table has its four rows.
C22_Witness ==
    /\ req.op = "create_rating"
    /\ req.level = "HIGH"
    /\ resp.result = UniqueError
    /\ Cardinality(RiskRatings) = 4

\* A run of the command that directly follows a run of the command inserts
\* nothing, changes nothing and fails on nothing.
SecondRunStep ==
    (req.op = "load" /\ req'.op = "load") =>
        /\ resp'.result = "ok"
        /\ resp'.id = 0
        /\ UNCHANGED <<clients, projects, audits, rows, related, nextAuditId,
                       nextRowId>>

\* C27: the sample-data loader run twice in sequence leaves the rows of
\* Client, ConsultingFirm, PrincipalContractor, Project, Audit,
\* LegalAppointment, RiskRating and ActionItem that one run leaves: the second
\* run creates no duplicate and meets no uniqueness error.
C27_LoaderIdempotent == [][SecondRunStep]_vars

\* C27 witness: the command has run twice on the empty store; the second run
\* created nothing, and the store holds one client, firm, contractor, project
\* and audit, five legal appointments, four ratings and three action items,
\* with no primary key used beyond these.
C27_Witness ==
    /\ req.op = "load"
    /\ resp.id = 0
    /\ DOMAIN clients = {1} /\ DOMAIN projects = {1} /\ DOMAIN audits = {1}
    /\ Cardinality(rows) = 5
    /\ Cardinality(related) = 9
    /\ nextAuditId = 2
    /\ nextRowId["LegalAppointment"] = 6
    /\ nextRowId["RiskRating"] = 5
    /\ nextRowId["ActionItem"] = 4

----------------------------------------------------------------------------
(* Create-audit field properties *)

AuditTypeStep ==
    ReachedForm(req') =>
        LET v == Get(req'.body.data, "audit_type") IN
        ~(v.t = "str" /\ v.s \in {"OHS", "ENV", "QUAL"}) =>
            /\ resp'.status = 400
            /\ ~resp'.success
            /\ "audit_type" \in DOMAIN resp'.errors
            /\ audits' = audits
            /\ nextAuditId' = nextAuditId

\* C23: a create-audit submission whose audit_type is not one of OHS, ENV,
\* QUAL is refused with an error under audit_type and persists nothing, and
\* every Audit persisted through the endpoint has one of the three types.
C23_AuditTypeEnumerated ==
    /\ [](\A a \in DOMAIN audits : audits[a].audit_type \in {"OHS", "ENV", "QUAL"})
    /\ [][AuditTypeStep]_vars

\* C23 witness: an Audit of type ENV was persisted, and a submission of type
\* XYZ has just been refused with an error under audit_type alone.
C23_Witness ==
    /\ ReachedForm(req)
    /\ Get(req.body.data, "audit_type") = Str("XYZ")
    /\ resp.status = 400
    /\ DOMAIN resp.errors = {"audit_type"}
    /\ "invalid_choice" \in resp.errors["audit_type"]
    /\ \E a \in DOMAIN audits : audits[a].audit_type = "ENV"

\* The fields of Audit that models.py declares with a default
DefaultedFields ==
    {"audit_type", "standard_required", "improvement_notices",
     "contravention_notices", "prohibition_notices"}

OmittedDefaultStep ==
    ReachedForm(req') =>
        \A f \in DefaultedFields \ DOMAIN req'.body.data :
            /\ resp'.status = 400
            /\ ~resp'.success
            /\ f \in DOMAIN resp'.errors
            /\ "required" \in resp'.errors[f]
            /\ audits' = audits
            /\ nextAuditId' = nextAuditId

\* C25: a create-audit payload that omits audit_type, standard_required or
\* one of the three notice counters is refused with a required error under
\* the omitted field and persists no Audit: the defaults of the model are
\* not applied.
C25_NoDefaultsApplied == [][OmittedDefaultStep]_vars

\* C25 witness: the payload of the test without improvement_notices was
\* refused with the required error under that field alone.
C25_Witness ==
    /\ ReachedForm(req)
    /\ DOMAIN req.body.data = AuditFields \ {"improvement_notices"}
    /\ resp.status = 400
    /\ DOMAIN resp.errors = {"improvement_notices"}
    /\ resp.errors["improvement_notices"] = {"required"}
    /\ DOMAIN audits = {1}

----------------------------------------------------------------------------
(* Update-client frame properties *)

FullUpdateStep ==
    (/\ ReachedClientForm(req')
     /\ req'.ctype = JsonType
     /\ resp'.success) =>
        /\ \A f \in {"contact_name", "contact_email", "contact_phone",
                     "address"} \ DOMAIN req'.body.data :
              clients'[req'.pk][f] = None
        /\ DOMAIN clients' = DOMAIN clients
        /\ clients'[req'.pk].name = clients[req'.pk].name

\* C24: a valid JSON update-client request that omits one of contact_name,
\* contact_email, contact_phone, address writes an empty value to the omitted
\* field, whatever the Client held there, and leaves the name and the primary
\* key of the Client as they were.
C24_NotPartialUpdate == [][FullUpdateStep]_vars

\* C24 witness: client 2, whose contact_phone was 555, was updated with the
\* payload of the test without contact_phone: the phone is empty, the other
\* fields are the submitted ones, and the name is BETA.
C24_Witness ==
    /\ ReachedClientForm(req)
    /\ req.ctype = JsonType
    /\ req.pk = 2
    /\ DOMAIN req.body.data = AllowedKeys \ {"contact_phone"}
    /\ resp.success
    /\ clients[2].contact_phone = None
    /\ clients[2].contact_name = "New Contact"
    /\ clients[2].name = "BETA"

----------------------------------------------------------------------------
(* Failed-login properties *)

\* The login request fails: its body does not parse, it lacks a username or
\* a password, or they are not those of an active account.
FailedLogin(r) ==
    /\ r.op = "login"
    /\ \/ r.ctype = JsonType /\ ~r.body.json
       \/ SubmittedUsername(r.body.data) = ""
       \/ SubmittedPassword(r.body.data) = ""
       \/ ~MatchesActiveAccount(users, SubmittedUsername(r.body.data),
                                SubmittedPassword(r.body.data))

\* The messages for the credentials the request lacks
MissingMessages(r) ==
    {m \in {"Please enter your username."} :
        SubmittedUsername(r.body.data) = ""}
    \cup {m \in {"Please enter your password."} :
            SubmittedPassword(r.body.data) = ""}

FailedLoginStep ==
    FailedLogin(req') =>
        /\ sessions' = sessions
        /\ ~LoginSucceeded(resp')
        /\ (/\ req'.body.json \/ req'.ctype = FormType
            /\ MissingMessages(req') # {}) =>
              IF req'.ctype = JsonType
              THEN /\ resp'.status = 400
                   /\ DOMAIN resp'.errors =
                        {f \in {"username"} : SubmittedUsername(req'.body.data) = ""}
                        \cup {f \in {"password"} :
                                SubmittedPassword(req'.body.data) = ""}
                   /\ UNION {resp'.errors[f] : f \in DOMAIN resp'.errors}
                        = MissingMessages(req')
              ELSE /\ resp'.kind = "redirect"
                   /\ resp'.location = "/"
                   /\ resp'.errors = [f \in {"messages"} |-> MissingMessages(req')]

\* C26: a login request that fails (body that does not parse, missing
\* username or password, unknown user, wrong password, inactive account)
\* leaves every session as it was, Anonymous or Authenticated as its user; a
\* missing username or password is answered with the error of each missing
\* field and nothing about the credentials, under the field's name with
\* status 400 on the JSON path and as flashed messages on the form path.
C26_FailedLoginFrame == [][FailedLoginStep]_vars

\* C26 witness: the session logged in as testuser has posted a JSON login
\* with the name of an account and another password; it was answered 400 and
\* is still logged in as testuser.
C26_Witness ==
    /\ req.op = "login"
    /\ req.authenticated
    /\ req.ctype = JsonType
    /\ req.body.json
    /\ WrongPassword(users, SubmittedUsername(req.body.data),
                     SubmittedPassword(req.body.data))
    /\ SubmittedPassword(req.body.data) # ""
    /\ resp.status = 400
    /\ sessions[req.session] = "testuser"

====
